---- MODULE Spec2Model ----
(***************************************************************************)
(* Risk-scoring and enforcement engine of the Telegram bot: RateLimiter    *)
(* (rate_limiter.py), AntiSpam (anti_spam.py), ModerationSystem            *)
(* (moderation.py) and the parts of BotData (bot_data.py) they write.      *)
(*                                                                         *)
(* Time is the wall clock datetime.now(), in whole seconds since the       *)
(* process started.  A handler reads the clock once per step: the two      *)
(* reads of datetime.now() inside one synchronous call (is_rate_limited    *)
(* and _apply_cooldown, for instance) are microseconds apart and are       *)
(* modelled as one value.                                                  *)
(***************************************************************************)
EXTENDS Integers, Sequences, FiniteSets, TLC

\* ------------------------------------------------------------------ bounds
\* The clock is read in bursts: FineTicks readings TickStep seconds apart after
\* each of the instants of BurstStarts.
TickStep == 30
FineTicks == 1
\* The clock of the cooldown-ladder specification stops at MaxLadderMinutes.
MaxLadderMinutes == 400
\* add_request is not called on a window that already holds MaxWindow entries.
MaxWindow == 6
\* check_spam scores at most MaxScored text messages; in the specification that
\* draws from the whole catalogue, at most MaxCatalogued unless they are all one
\* sender's and one text.
MaxScored == 5
MaxCatalogued == 2
\* The warnings one (chat, user) collects.
MaxWarnings == 4
\* The interactions the gate's specification logs.
MaxLogged == 3
\* The longest chat history a snapshot is taken of: one more than it keeps.
MaxHistory == 101
MaxMissing == 2
\* The messages the cadence specification scores.
MaxCadence == 11
MaxPruned == 1001
\* The interactions the specification of a burst logs.
MaxBurst == 7
\* Steady traffic: one update every SteadyPace seconds, until MaxSteady
\* interactions are logged.
SteadyPace == 15
MaxSteady == 101

\* BotConfig reads the two message caps from the environment (config.py:78-79,
\* defaults 10 and 100); the model runs the configuration below.
MAX_MESSAGES_PER_MINUTE == 2
MAX_MESSAGES_PER_HOUR == 3

\* ------------------------------------------------------- program constants
Minute == 60
Hour == 3600
Day == 86400
MAX_API_CALLS_PER_MINUTE == 5
\* The defaults of the two caps that the environment can override
DEFAULT_MESSAGES_PER_MINUTE == 10
DEFAULT_MESSAGES_PER_HOUR == 100
MAX_MESSAGE_LENGTH == 4000
\* validate_input(text, max_length=4000)
MAX_INPUT_LENGTH == 4000
MAX_IDENTICAL_MESSAGES == 3
SPAM_SCORE_THRESHOLD == 5
AUTO_BAN_SPAM_SCORE == 10
\* MAX_CAPS_PERCENTAGE = 0.7, as the fraction 7 / 10
MAX_CAPS_TENTHS == 7
CAPS_DENOMINATOR == 10
ENABLE_PROFANITY_FILTER == TRUE
ENABLE_LINK_FILTER == TRUE
ENABLE_CAPS_FILTER == TRUE
ENABLE_USER_VERIFICATION == TRUE
PROFANITY_WORDS == {"spam", "scam", "fake"}
\* _check_rapid_messaging: timedelta(seconds=30)
RAPID_WINDOW_SECONDS == 30
\* _check_account_age: user.id > 5000000000.  User ids are written in units of
\* 10^9 (TLC's integers have 32 bits).
NEW_ACCOUNT_ID == 5
\* _apply_cooldown: min(warning_count * 5, 60) minutes
COOLDOWN_STEP_MINUTES == 5
COOLDOWN_CAP_MINUTES == 60
\* config.OWNER_ID is set by the deployment
OWNER_ID == 9
\* to_dict keeps chat_history[-100:]; clean_old_data keeps chat_history[-1000:]
SNAPSHOT_HISTORY == 100
MAX_CHAT_HISTORY == 1000
\* security.py: user.id > 5000000000, ids in units of 10^9
HIGH_USER_ID == 5
VERIFICATION_LIMIT == 3
AUTO_BACKUP_INTERVAL == 3600
FAILED_VERIFICATION_LIMIT == 3
\* datetime.max, the end of a permanent ban
DatetimeMax == 2000000000
\* moderation.py: the mute of the middle band, the automatic mute of the third
\* warning, and the margin of the middle band above the threshold
MUTE_MINUTES == 30
AUTO_MUTE_MINUTES == 60
WARNINGS_BEFORE_MUTE == 3
MUTE_MARGIN == 2

\* Every dict of the RateLimiter is keyed by the user id and no method reads
\* another user's entry: one user is modelled.
Users == {1}
\* The senders of the scored messages: an old account and a new one.
Senders == {1, 6}
RequestTypes == {"message", "api"}
None == "None"
\* None in a field that otherwise holds a datetime
NoTime == -1
NoUser == 0

\* The clock readings of the rate limiter's specification: process start, the
\* expiry of a first cooldown, one hour later.
BurstStarts == {0, COOLDOWN_STEP_MINUTES * Minute, Hour}
Readings == {b + k * TickStep : b \in BurstStarts, k \in 0..FineTicks}

VARIABLES
    now,             \* datetime.now()
    user_requests,   \* RateLimiter.user_requests  : user -> list of datetimes
    api_requests,    \* RateLimiter.api_requests   : user -> list of datetimes
    cooldown_users,  \* RateLimiter.cooldown_users : dict user -> datetime
    warning_counts,  \* RateLimiter.warning_counts : user -> int
    config,          \* BotConfig.load_from_env(): the caps read from the environment
    cooldown_log,    \* per user, from the logger: cooldown lines since the last
                     \* "Rate limits reset" line, and the minutes of the latest
    message_hashes,  \* AntiSpam.message_hashes : dict hash -> list of (user, datetime)
    user_message_intervals, \* AntiSpam.user_message_intervals : dict user -> list
    user_stats,      \* BotData.user_stats      : dict user -> UserStats
    spam_violations, \* BotData.spam_violations : dict user -> list of datetimes
    scored,          \* the text messages scored so far: (user, text, datetime)
    mod_warning_counts, \* ModerationSystem.warning_counts : dict (chat, user) -> int
    muted_users,     \* ModerationSystem.muted_users : dict (chat, user) -> datetime
    moderated,       \* the update the moderation system handled last
    transport,       \* the Telegram requests of that handler, in order
    sweep,           \* cleanup_expired_restrictions: where the coroutine stands
    banned_users,    \* BotData.banned_users   : dict user -> ban_end_time
    approved_users,  \* BotData.approved_users : set of users
    suspicious_users,     \* SecuritySystem.suspicious_users : set of users
    failed_verifications, \* SecuritySystem.failed_verifications : dict user -> int
    replies,         \* the reply_text messages of the last handler, by their kind
    subject,         \* update.effective_user of the last handler
    bot_data,        \* the other fields of BotData that to_dict writes
    disk,            \* config.DATA_FILE: <<>> when there is no file, else <<the dict>>
    quarantined,     \* the files DATA_FILE.error.<timestamp>, by their timestamp
    last_call,       \* the call that ran last
    ret              \* and what it returned

rlVars == <<user_requests, api_requests, cooldown_users, warning_counts, cooldown_log,
           config>>
spamVars == <<message_hashes, user_message_intervals, user_stats, spam_violations, scored>>
modVars == <<mod_warning_counts, muted_users, moderated, transport>>
sweepVars == <<sweep>>
gateVars == <<banned_users, approved_users, suspicious_users, failed_verifications,
              replies, subject>>
dataVars == <<bot_data, disk, quarantined>>
vars == <<now, user_requests, api_requests, cooldown_users, warning_counts,
          cooldown_log, config, message_hashes, user_message_intervals, user_stats,
          spam_violations, scored, mod_warning_counts, muted_users, moderated,
          transport, sweep, banned_users, approved_users, suspicious_users,
          failed_verifications, replies, subject, bot_data, disk, quarantined,
          last_call, ret>>

\* ----------------------------------------------------------------- helpers
Min(a, b) == IF a <= b THEN a ELSE b
Max(a, b) == IF a >= b THEN a ELSE b

\* [x for x in xs if x > cutoff]
NewerThan(xs, cutoff) == SelectSeq(xs, LAMBDA x : x > cutoff)

\* dict with key k deleted
Without(d, k) == [x \in DOMAIN d \ {k} |-> d[x]]

\* dict with d[k] = v set
With(d, k, v) == [x \in DOMAIN d \cup {k} |-> IF x = k THEN v ELSE d[x]]

Call(op, u, t) == [op |-> op, user |-> u, type |-> t]

\* The bool a moderation method returns, written like None as its repr (the
\* specification with fairness needs `ret` to hold values of one kind).
Bool(b) == IF b THEN "True" ELSE "False"

\* ------------------------------------------------------------- RateLimiter
\* _apply_cooldown: cooldown_minutes = min(warning_counts[user] * 5, 60)
CooldownMinutesNoCap(count) == count * COOLDOWN_STEP_MINUTES
CooldownMinutesBeforeIncrement(count) ==
    Min((count - 1) * COOLDOWN_STEP_MINUTES, COOLDOWN_CAP_MINUTES)
CooldownMinutes(count) == Min(count * COOLDOWN_STEP_MINUTES, COOLDOWN_CAP_MINUTES)

\* _clean_old_requests
CleanMessages(u, t) == NewerThan(user_requests[u], t - Hour)
CleanApi(u, t) == NewerThan(api_requests[u], t - Minute)

\* _check_message_rate_limit on the cleaned window: the violation type, or None
MessageViolationStrict(reqs, t) ==
    IF Len(NewerThan(reqs, t - Minute)) > config.MAX_MESSAGES_PER_MINUTE THEN "message_flood"
    ELSE IF Len(NewerThan(reqs, t - Hour)) > config.MAX_MESSAGES_PER_HOUR THEN "message_abuse"
    ELSE None
MessageViolation(reqs, t) ==
    IF Len(NewerThan(reqs, t - Minute)) >= config.MAX_MESSAGES_PER_MINUTE THEN "message_flood"
    ELSE IF Len(NewerThan(reqs, t - Hour)) >= config.MAX_MESSAGES_PER_HOUR THEN "message_abuse"
    ELSE None

\* _check_api_rate_limit on the cleaned window
ApiViolationNever(reqs, t) == None
ApiViolation(reqs, t) ==
    IF Len(NewerThan(reqs, t - Minute)) >= MAX_API_CALLS_PER_MINUTE THEN "api_abuse"
    ELSE None

\* is_rate_limited, line 25-27: the user is in cooldown and it has not expired
InCooldownIgnored(u) == FALSE
InCooldownFlipped(u) == u \in DOMAIN cooldown_users /\ cooldown_users[u] < now
InCooldown(u) == u \in DOMAIN cooldown_users /\ cooldown_users[u] > now

\* is_rate_limited(user_id, request_type): what it returns and the dicts after it
AfterIsRateLimited(u, t) ==
    IF InCooldown(u)
    THEN [ret |-> TRUE, user_requests |-> user_requests, api_requests |-> api_requests,
          cooldown_users |-> cooldown_users, warning_counts |-> warning_counts,
          cooldown_log |-> cooldown_log]
    ELSE LET msgs == CleanMessages(u, now)
             apis == CleanApi(u, now)
             violation == IF t = "message" THEN MessageViolation(msgs, now)
                          ELSE ApiViolation(apis, now)
             count == warning_counts[u] + 1
         IN  [ret |-> violation # None,
              user_requests |-> [user_requests EXCEPT ![u] = msgs],
              api_requests |-> [api_requests EXCEPT ![u] = apis],
              cooldown_users |->
                  IF violation # None
                  THEN With(cooldown_users, u, now + CooldownMinutes(count) * Minute)
                  ELSE Without(cooldown_users, u),
              warning_counts |->
                  IF violation # None THEN [warning_counts EXCEPT ![u] = count]
                  ELSE warning_counts,
              cooldown_log |->
                  IF violation # None
                  THEN [cooldown_log EXCEPT ![u] =
                           [breaches |-> @.breaches + 1,
                            minutes |-> CooldownMinutes(count)]]
                  ELSE cooldown_log]

\* The dicts of the rate limiter become those of the record a.
RateLimiterBecomes(a) ==
    /\ user_requests' = a.user_requests
    /\ api_requests' = a.api_requests
    /\ cooldown_users' = a.cooldown_users
    /\ warning_counts' = a.warning_counts
    /\ cooldown_log' = a.cooldown_log
    /\ UNCHANGED config

IsRateLimited(u, t) ==
    /\ last_call' = Call("is_rate_limited", u, t)
    /\ UNCHANGED <<now, spamVars, modVars, sweepVars, gateVars, dataVars>>
    /\ ret' = AfterIsRateLimited(u, t).ret
    /\ RateLimiterBecomes(AfterIsRateLimited(u, t))

\* The callers of add_request.  handle_text (handlers.py:39, 122, 145, 152) calls
\* add_request(u, c) right after is_rate_limited(u, c) returned False;
\* handle_image (handlers.py:160, 174, 181, 182) checks "message", then "api",
\* and then adds a "message" and an "api" request.  No clock tick and no other
\* call comes in between: the handlers do not await there.
InHandler(u, t) ==
    /\ last_call.user = u
    /\ \/ /\ last_call.op = "is_rate_limited"
          /\ ret = FALSE
          /\ \/ last_call.type = t
             \/ /\ last_call.type = "api"
                /\ t = "message"
                /\ MessageViolation(user_requests[u], now) = None
       \/ /\ last_call.op = "add_request"
          /\ last_call.type = "message"
          /\ t = "api"
          /\ ApiViolation(api_requests[u], now) = None

\* add_request(user_id, request_type)
AddRequest(u, t) ==
    /\ InHandler(u, t)
    /\ last_call' = Call("add_request", u, t)
    /\ ret' = None
    /\ IF t = "message"
       THEN /\ Len(user_requests[u]) < MaxWindow
            /\ user_requests' = [user_requests EXCEPT ![u] = Append(@, now)]
            /\ UNCHANGED api_requests
       ELSE /\ Len(api_requests[u]) < MaxWindow
            /\ api_requests' = [api_requests EXCEPT ![u] = Append(@, now)]
            /\ UNCHANGED user_requests
    /\ UNCHANGED <<now, cooldown_users, warning_counts, cooldown_log, config, spamVars, modVars, sweepVars, gateVars, dataVars>>

\* get_cooldown_remaining(user_id): None, or max(0, int(remaining seconds))
CooldownRemaining(u) ==
    IF u \notin DOMAIN cooldown_users THEN None
    ELSE Max(0, cooldown_users[u] - now)

GetCooldownRemaining(u) ==
    /\ last_call' = Call("get_cooldown_remaining", u, None)
    /\ ret' = CooldownRemaining(u)
    /\ UNCHANGED <<now, rlVars, spamVars, modVars, sweepVars, gateVars, dataVars>>

\* reset_user_limits(user_id)
ResetKeepsCount(u) ==
    /\ last_call' = Call("reset_user_limits", u, None)
    /\ ret' = None
    /\ user_requests' = [user_requests EXCEPT ![u] = <<>>]
    /\ api_requests' = [api_requests EXCEPT ![u] = <<>>]
    /\ cooldown_users' = Without(cooldown_users, u)
    /\ cooldown_log' = [cooldown_log EXCEPT ![u] = [breaches |-> 0, minutes |-> 0]]
    /\ UNCHANGED config
    /\ UNCHANGED <<now, warning_counts, spamVars, modVars, sweepVars, gateVars, dataVars>>
ResetUserLimits(u) ==
    /\ last_call' = Call("reset_user_limits", u, None)
    /\ ret' = None
    /\ user_requests' = [user_requests EXCEPT ![u] = <<>>]
    /\ api_requests' = [api_requests EXCEPT ![u] = <<>>]
    /\ cooldown_users' = Without(cooldown_users, u)
    /\ warning_counts' = [warning_counts EXCEPT ![u] = 0]
    /\ cooldown_log' = [cooldown_log EXCEPT ![u] = [breaches |-> 0, minutes |-> 0]]
    /\ UNCHANGED config
    /\ UNCHANGED <<now, spamVars, modVars, sweepVars, gateVars, dataVars>>

\* get_user_stats(user_id)
UserStats(u) ==
    [messages_last_minute |-> Len(NewerThan(user_requests[u], now - Minute)),
     messages_last_hour |-> Len(NewerThan(user_requests[u], now - Hour)),
     api_calls_last_minute |-> Len(NewerThan(api_requests[u], now - Minute)),
     warning_count |-> warning_counts[u],
     cooldown_remaining |-> IF u \notin DOMAIN cooldown_users THEN 0
                            ELSE CooldownRemaining(u)]

GetUserStats(u) ==
    /\ last_call' = Call("get_user_stats", u, None)
    /\ ret' = UserStats(u)
    /\ UNCHANGED <<now, rlVars, spamVars, modVars, sweepVars, gateVars, dataVars>>

\* The clock advances to t.
Tick(t) ==
    /\ t > now
    /\ now' = t
    /\ last_call' = Call("tick", NoUser, None)
    /\ ret' = None
    /\ UNCHANGED <<rlVars, spamVars, modVars, sweepVars, gateVars, dataVars>>

\* ---------------------------------------------------------------- AntiSpam
\* A text message, by what the scorer reads of it: its length, the number of
\* its upper-case characters, its lower-cased whitespace-separated words, the
\* indices of the SPAM_PATTERNS that re.search finds in it, and whether the
\* short-link pattern of _check_suspicious_links finds a match.  Each row is
\* what Python computes for the text named in it; "aaaa..." is 5000 letters a.
Msg(text, len, upper, words, patterns, short_link) ==
    [text |-> text, len |-> len, upper |-> upper, words |-> words,
     patterns |-> patterns, short_link |-> short_link]

MsgPlain == Msg("hello there", 11, 0, {"hello", "there"}, <<>>, FALSE)
MsgLong == Msg("aaaa...", 5000, 0, {"aaaa..."}, <<>>, FALSE)
MsgCasino == Msg("casino", 6, 0, {"casino"}, <<0>>, FALSE)
MsgScam == Msg("total scam", 10, 0, {"total", "scam"}, <<>>, FALSE)
MsgNotAWord == Msg("what a SCAM!", 12, 4, {"what", "a", "scam!"}, <<>>, FALSE)
MsgCaps == Msg("HELLO EVERYONE", 14, 13, {"hello", "everyone"}, <<>>, FALSE)
MsgGoo == Msg("see https://goo.gl/x", 20, 0, {"see", "https://goo.gl/x"}, <<>>, TRUE)
MsgBitly == Msg("see http://bit.ly/x", 19, 0, {"see", "http://bit.ly/x"}, <<3>>, TRUE)
MsgPromo == Msg("FREE MONEY CASINO URGENT", 24, 21,
                {"free", "money", "casino", "urgent"}, <<0, 1, 4>>, FALSE)
MsgAll == Msg("casino free money urgent http://bit.ly/x", 40, 0,
              {"casino", "free", "money", "urgent", "http://bit.ly/x"}, <<0, 1, 3, 4>>, TRUE)
\* update.message.text is None: a photo, a sticker
NoText == Msg("", 0, 0, {}, <<>>, FALSE)

\* Texts written to the bot in a group, with the trigger word first.  "alya
\* aaaa..." is the trigger word, letters a and the link, 5000 characters in all.
MsgAlya == Msg("alya hello", 10, 0, {"alya", "hello"}, <<>>, FALSE)
MsgAlyaLink == Msg("alya see http://bit.ly/x", 24, 0, {"alya", "see", "http://bit.ly/x"},
                   <<3>>, TRUE)
MsgAlyaAll == Msg("alya casino free money urgent http://bit.ly/x", 45, 0,
                  {"alya", "casino", "free", "money", "urgent", "http://bit.ly/x"},
                  <<0, 1, 3, 4>>, TRUE)
MsgFlood == Msg("alya aaaa... http://bit.ly/x", 5000, 0,
                {"alya", "aaaa...", "http://bit.ly/x"}, <<3>>, TRUE)
MsgScript == Msg("alya <script>x</script>", 23, 0, {"alya", "<script>x</script>"},
                 <<>>, FALSE)

Catalogue == {MsgPlain, MsgLong, MsgCasino, MsgScam, MsgNotAWord, MsgCaps, MsgGoo,
              MsgBitly, MsgPromo, MsgAll, NoText}
Repeated == {MsgPlain, MsgGoo, NoText}

\* update.effective_user: the id, and user.username or user.first_name
UserName(u) == IF u = 1 THEN "alice" ELSE "newcomer"

PatternTags == <<"spam_pattern_0", "spam_pattern_1", "spam_pattern_2",
                 "spam_pattern_3", "spam_pattern_4">>

\* _check_spam_patterns: the tags of the patterns that match, in order
CheckSpamPatterns(m) == [i \in DOMAIN m.patterns |-> PatternTags[m.patterns[i] + 1]]

\* _contains_profanity
ContainsProfanity(m) ==
    IF ~ENABLE_PROFANITY_FILTER THEN FALSE
    ELSE \E w \in m.words : w \in PROFANITY_WORDS

\* _check_excessive_caps: caps_count / len(text) > MAX_CAPS_PERCENTAGE
CheckExcessiveCaps(m) ==
    IF ~ENABLE_CAPS_FILTER \/ m.len < 10 THEN FALSE
    ELSE m.upper * CAPS_DENOMINATOR > MAX_CAPS_TENTHS * m.len

\* _check_suspicious_links
CheckSuspiciousLinks(m) ==
    IF ~ENABLE_LINK_FILTER THEN FALSE
    ELSE m.short_link

\* hashlib.md5(message.encode()).hexdigest(): one digest per text
Md5(text) == <<"md5", text>>

\* dict.get(key, []) of a dict of lists
Lookup(d, k) == IF k \in DOMAIN d THEN d[k] ELSE <<>>

\* _check_duplicate_message: the pruned bucket, and the sender's entries in it
PrunedBucket(m) ==
    SelectSeq(Lookup(message_hashes, Md5(m.text)), LAMBDA e : e[2] > now - Hour)
\* The count that takes every sender's entries of the bucket
UserDuplicatesOfAnyUser(u, m) == PrunedBucket(m)
UserDuplicates(u, m) == SelectSeq(PrunedBucket(m), LAMBDA e : e[1] = u)
DuplicateScoreCountsCurrent(u, m) ==
    IF Len(UserDuplicates(u, m)) + 1 >= MAX_IDENTICAL_MESSAGES
    THEN Len(UserDuplicates(u, m)) + 1 - MAX_IDENTICAL_MESSAGES + 1
    ELSE 0
DuplicateScore(u, m) ==
    IF Len(UserDuplicates(u, m)) >= MAX_IDENTICAL_MESSAGES
    THEN Len(UserDuplicates(u, m)) - MAX_IDENTICAL_MESSAGES + 1
    ELSE 0

\* The list that is never cut
LastTenKeepsAll(xs) == xs

\* xs[-10:]
LastTen(xs) == IF Len(xs) <= 10 THEN xs ELSE SubSeq(xs, Len(xs) - 9, Len(xs))

\* _check_rapid_messaging: the sender's list after the call, and the verdict
Intervals(u) == LastTen(Append(Lookup(user_message_intervals, u), now))
RapidMessaging(u) ==
    Len(SelectSeq(Intervals(u), LAMBDA t : t > now - RAPID_WINDOW_SECONDS)) >= 5

\* _check_account_age
AccountAgeScore(u) ==
    IF ~ENABLE_USER_VERIFICATION THEN 0
    ELSE IF u > NEW_ACCOUNT_ID THEN 1 ELSE 0

\* get_user_stats that takes every name it is given
GetOrCreateAlwaysRenames(stats, u, name) ==
    IF u \notin DOMAIN stats
    THEN With(stats, u, [user_id |-> u, username |-> name,
                         first_seen |-> now, last_seen |-> now,
                         message_count |-> 0, spam_score |-> 0, warnings |-> 0,
                         verification_status |-> "unverified",
                         last_spam_check |-> NoTime])
    ELSE [stats EXCEPT ![u].last_seen = now, ![u].username = name]

\* BotData.get_user_stats(user_id, username) on the dict stats
GetOrCreate(stats, u, name) ==
    IF u \notin DOMAIN stats
    THEN With(stats, u, [user_id |-> u, username |-> name,
                         first_seen |-> now, last_seen |-> now,
                         message_count |-> 0, spam_score |-> 0, warnings |-> 0,
                         verification_status |-> "unverified",
                         last_spam_check |-> NoTime])
    ELSE [stats EXCEPT ![u].last_seen = now,
                       ![u].username = IF name # "unknown" THEN name ELSE @]

\* BotData.add_spam_violation: the violation list, and the user's record
ViolationsAfter(u) ==
    SelectSeq(Append(Lookup(spam_violations, u), now), LAMBDA t : t > now - Day)
StatsAfterViolationAddsScore(stats, u, score) ==
    [GetOrCreate(stats, u, "unknown") EXCEPT ![u].spam_score = @ + score]
StatsAfterViolationSubtracts(stats, u, score) ==
    [GetOrCreate(stats, u, "unknown") EXCEPT ![u].spam_score = @ - 1]
StatsAfterViolationCounted(stats, u, score) ==
    [GetOrCreate(stats, u, "unknown") EXCEPT ![u].spam_score = @ + 1,
                                             ![u].message_count = @ + 1]
StatsAfterViolation(stats, u, score) ==
    [GetOrCreate(stats, u, "unknown") EXCEPT ![u].spam_score = @ + 1]

\* check_spam, lines 39-80: the signals in the order they are tested, each
\* with its tags and its contribution
Signals(u, m) ==
    << [tags |-> <<"message_too_long">>,
        score |-> IF m.len > MAX_MESSAGE_LENGTH THEN 2 ELSE 0],
       [tags |-> CheckSpamPatterns(m),
        score |-> Len(CheckSpamPatterns(m)) * 2],
       [tags |-> <<"profanity">>,
        score |-> IF ContainsProfanity(m) THEN 1 ELSE 0],
       [tags |-> <<"excessive_caps">>,
        score |-> IF CheckExcessiveCaps(m) THEN 1 ELSE 0],
       [tags |-> <<"duplicate_message">>,
        score |-> DuplicateScore(u, m)],
       [tags |-> <<"suspicious_links">>,
        score |-> IF CheckSuspiciousLinks(m) THEN 3 ELSE 0],
       [tags |-> <<"rapid_messaging">>,
        score |-> IF RapidMessaging(u) THEN 2 ELSE 0],
       [tags |-> <<"new_account">>,
        score |-> AccountAgeScore(u)] >>

RECURSIVE SumScores(_)
SumScores(sigs) ==
    IF sigs = <<>> THEN 0 ELSE Head(sigs).score + SumScores(Tail(sigs))

RECURSIVE Reasons(_)
Reasons(sigs) ==
    IF sigs = <<>> THEN <<>>
    ELSE (IF Head(sigs).score > 0 THEN Head(sigs).tags ELSE <<>>) \o Reasons(Tail(sigs))

\* is_spam = spam_score >= config.SPAM_SCORE_THRESHOLD
IsSpamAboveThreshold(score) == score > SPAM_SCORE_THRESHOLD
IsSpam(score) == score >= SPAM_SCORE_THRESHOLD

\* check_spam(update, bot_data)
CheckSpam(u, m) ==
    /\ last_call' = Call("check_spam", u, m.text)
    /\ UNCHANGED <<now, rlVars, modVars, sweepVars, gateVars, dataVars>>
    /\ IF m = NoText
       THEN /\ ret' = [is_spam |-> FALSE, reason |-> <<>>, score |-> 0]
            /\ UNCHANGED spamVars
       ELSE LET sigs == Signals(u, m)
                spam_score == SumScores(sigs)
                stats == [GetOrCreate(user_stats, u, UserName(u))
                              EXCEPT ![u].last_spam_check = now]
            IN  /\ message_hashes' =
                       With(message_hashes, Md5(m.text), Append(PrunedBucket(m), <<u, now>>))
                /\ user_message_intervals' = With(user_message_intervals, u, Intervals(u))
                /\ scored' = Append(scored, [user |-> u, text |-> m.text, at |-> now])
                /\ IF IsSpam(spam_score)
                   THEN /\ spam_violations' = With(spam_violations, u, ViolationsAfter(u))
                        /\ user_stats' = StatsAfterViolation(stats, u, spam_score)
                   ELSE /\ user_stats' = stats
                        /\ UNCHANGED spam_violations
                /\ ret' = [is_spam |-> IsSpam(spam_score),
                           reason |-> Reasons(sigs),
                           score |-> spam_score]

\* ------------------------------------------------------ ModerationSystem
\* The chats an update can come from: chat.id and chat.type.
GroupChat == [id |-> 100, type |-> "supergroup"]
PrivateChat == [id |-> 1, type |-> "private"]
Chats == {GroupChat, PrivateChat}
\* Both dicts are keyed by (chat, user), and handle_spam_violation,
\* clear_user_warnings and unmute_user touch only the key of their update: one
\* member is modelled.
Members == {1}

\* The spam scores handed to the moderation system: from below the threshold
\* to above the automatic ban.
Scores == (SPAM_SCORE_THRESHOLD - 1)..(AUTO_BAN_SPAM_SCORE + 1)

\* The awaited Telegram requests, by call site.  Each of them can raise; an
\* outcome says, for every site, whether the request made there succeeds.
CallSites == {"ban_chat_member", "ban_msg", "restrict_chat_member", "mute_msg",
              "warning_msg", "delete"}
Outcomes == [CallSites -> BOOLEAN]

\* One request of a handler: the call site, the (chat, user) it is about, the
\* minutes of a restriction (0 for the other requests) and whether it succeeded.
Request(site, key, minutes, ok) ==
    [call |-> site, chat |-> key[1], user |-> key[2], minutes |-> minutes, ok |-> ok[site]]

\* self.warning_counts.get(key, 0)
GetUserWarnings(key) ==
    IF key \in DOMAIN mod_warning_counts THEN mod_warning_counts[key] ELSE 0

\* _mute_user: the entry is written after the awaited restrict_chat_member, in
\* the same try block; the notice follows the entry.
MuteUser(key, minutes, ok) ==
    IF ok["restrict_chat_member"]
    THEN [muted_users |-> With(muted_users, key, now + minutes * Minute),
          calls |-> <<Request("restrict_chat_member", key, minutes, ok),
                      Request("mute_msg", key, 0, ok)>>]
    ELSE [muted_users |-> muted_users,
          calls |-> <<Request("restrict_chat_member", key, minutes, ok)>>]

\* _ban_user: two requests, no local state.
BanUser(key, ok) ==
    IF ok["ban_chat_member"]
    THEN <<Request("ban_chat_member", key, 0, ok), Request("ban_msg", key, 0, ok)>>
    ELSE <<Request("ban_chat_member", key, 0, ok)>>

\* _warn_user: the counter is incremented before the try block; the automatic
\* mute is inside it, after the awaited warning message.
WarnUser(key, ok) ==
    LET warning_count == GetUserWarnings(key) + 1
        counts == With(mod_warning_counts, key, warning_count)
        warned == <<Request("warning_msg", key, 0, ok)>>
    IN  IF ok["warning_msg"] /\ warning_count >= WARNINGS_BEFORE_MUTE
        THEN LET mute == MuteUser(key, AUTO_MUTE_MINUTES, ok)
             IN  [warning_counts |-> counts, muted_users |-> mute.muted_users,
                  calls |-> warned \o mute.calls]
        ELSE [warning_counts |-> counts, muted_users |-> muted_users, calls |-> warned]

\* The branch handle_spam_violation takes for a score.
SelectedMuteFirst(spam_score) ==
    IF spam_score >= SPAM_SCORE_THRESHOLD + MUTE_MARGIN THEN "mute"
    ELSE IF spam_score >= AUTO_BAN_SPAM_SCORE THEN "ban"
    ELSE IF spam_score >= SPAM_SCORE_THRESHOLD THEN "warn"
    ELSE "none"
Selected(spam_score) ==
    IF spam_score >= AUTO_BAN_SPAM_SCORE THEN "ban"
    ELSE IF spam_score >= SPAM_SCORE_THRESHOLD + MUTE_MARGIN THEN "mute"
    ELSE IF spam_score >= SPAM_SCORE_THRESHOLD THEN "warn"
    ELSE "none"

\* The deletion of the spam message that ends handle_spam_violation: one
\* request, in a try block of its own.
DeleteMessageSkipped(key, ok) == <<>>
DeleteMessage(key, ok) == <<Request("delete", key, 0, ok)>>

\* handle_spam_violation(update, context, bot_data, spam_score, reason)
HandleSpamViolation(chat, u, spam_score, ok) ==
    LET key == <<chat.id, u>>
        deleted == DeleteMessage(key, ok)
    IN  /\ last_call' = Call("handle_spam_violation", u, chat.type)
        /\ ret' = None
        /\ moderated' = [chat |-> chat.id, user |-> u, score |-> spam_score]
        /\ UNCHANGED <<now, rlVars, spamVars, sweepVars, gateVars, dataVars>>
        /\ IF chat.type = "private"
           THEN /\ transport' = <<>>
                /\ UNCHANGED <<mod_warning_counts, muted_users>>
           ELSE CASE Selected(spam_score) = "ban" ->
                       /\ transport' = BanUser(key, ok) \o deleted
                       /\ UNCHANGED <<mod_warning_counts, muted_users>>
                  [] Selected(spam_score) = "mute" ->
                       LET mute == MuteUser(key, MUTE_MINUTES, ok)
                       IN  /\ muted_users' = mute.muted_users
                           /\ transport' = mute.calls \o deleted
                           /\ UNCHANGED mod_warning_counts
                  [] Selected(spam_score) = "warn" ->
                       LET warn == WarnUser(key, ok)
                       IN  /\ mod_warning_counts' = warn.warning_counts
                           /\ muted_users' = warn.muted_users
                           /\ transport' = warn.calls \o deleted
                  [] OTHER ->
                       /\ transport' = deleted
                       /\ UNCHANGED <<mod_warning_counts, muted_users>>

\* clear_user_warnings(chat_id, user_id)
ClearUserWarnings(chat, u) ==
    /\ last_call' = Call("clear_user_warnings", u, chat.type)
    /\ ret' = None
    /\ mod_warning_counts' = Without(mod_warning_counts, <<chat.id, u>>)
    /\ moderated' = [chat |-> chat.id, user |-> u, score |-> 0]
    /\ transport' = <<>>
    /\ UNCHANGED <<now, muted_users, rlVars, spamVars, sweepVars, gateVars, dataVars>>

\* unmute_user(update, context, user_id): the entry is deleted after the
\* awaited restrict_chat_member, in the same try block.
UnmuteUser(chat, u, ok) ==
    LET key == <<chat.id, u>>
    IN  /\ last_call' = Call("unmute_user", u, chat.type)
        /\ ret' = Bool(ok["restrict_chat_member"])
        /\ muted_users' = IF ok["restrict_chat_member"] THEN Without(muted_users, key)
                          ELSE muted_users
        /\ moderated' = [chat |-> chat.id, user |-> u, score |-> 0]
        /\ transport' = <<Request("restrict_chat_member", key, 0, ok)>>
        /\ UNCHANGED <<now, mod_warning_counts, rlVars, spamVars, sweepVars, gateVars, dataVars>>

\* ------------------------------------------ the sweep and the mute table
\* The members the admin commands and the sweep deal with, in the group chat.
MuteKeys == {<<GroupChat.id, u>> : u \in Senders}

\* The minutes an admin passes to /mute (60 when omitted).
MuteArgs == {MUTE_MINUTES, AUTO_MUTE_MINUTES}

\* cleanup_expired_restrictions is a coroutine: it is idle, or it is suspended
\* in the restrict_chat_member of one of the keys of the list expired_mutes it
\* built at the instant `now` (the keys still to do are kept).
Idle == [pc |-> "idle", now |-> 0, expired_mutes |-> {}]

\* [key for key, unmute_time in self.muted_users.items() if unmute_time <= now]
ExpiredMutes == {key \in DOMAIN muted_users : muted_users[key] <= now}

\* The sweep is started by cleanup_task (one instance at a time): it reads the
\* clock, lists the expired keys and suspends in the first request.
SweepStart ==
    /\ sweep.pc = "idle"
    /\ last_call' = Call("cleanup_expired_restrictions", NoUser, None)
    /\ ret' = None
    /\ sweep' = IF ExpiredMutes = {} THEN Idle
                ELSE [pc |-> "awaiting", now |-> now, expired_mutes |-> ExpiredMutes]
    /\ transport' = <<>>
    /\ UNCHANGED <<now, mod_warning_counts, muted_users, moderated, rlVars, spamVars, gateVars, dataVars>>

\* After a successful request the sweep deletes the key; `del` of a key that is
\* gone raises KeyError, which the except branch of the loop logs like a failed
\* request.
SweepDelete(key) ==
    IF key \in DOMAIN muted_users
    THEN [muted_users |-> Without(muted_users, key), log |-> "Auto-unmuted"]
    ELSE [muted_users |-> muted_users, log |-> "Failed to auto-unmute"]

\* The request for key returns (ok) or raises, and the loop goes on to the next
\* key.  The for loop follows the insertion order of the dict, which the model
\* does not record: the keys are taken in any order.
SweepResume(key, ok) ==
    LET done == IF ok THEN SweepDelete(key)
                ELSE [muted_users |-> muted_users, log |-> "Failed to auto-unmute"]
        rest == sweep.expired_mutes \ {key}
    IN  /\ sweep.pc = "awaiting"
        /\ key \in sweep.expired_mutes
        /\ last_call' = Call("cleanup_expired_restrictions", key[2], None)
        /\ ret' = done.log
        /\ muted_users' = done.muted_users
        /\ sweep' = IF rest = {} THEN Idle ELSE [sweep EXCEPT !.expired_mutes = rest]
        /\ transport' = <<[call |-> "restrict_chat_member", chat |-> key[1],
                           user |-> key[2], minutes |-> 0, ok |-> ok]>>
        /\ UNCHANGED <<now, mod_warning_counts, moderated, rlVars, spamVars, gateVars, dataVars>>

\* /mute USER_ID [MINUTES] in a group: _mute_user, whose entry is written when
\* its request has returned.
MuteUserCmd(key, minutes, ok) ==
    LET mute == MuteUser(key, minutes, ok)
    IN  /\ last_call' = Call("_mute_user", key[2], GroupChat.type)
        /\ ret' = None
        /\ muted_users' = mute.muted_users
        /\ transport' = mute.calls
        /\ moderated' = [chat |-> key[1], user |-> key[2], score |-> 0]
        /\ UNCHANGED <<now, mod_warning_counts, rlVars, spamVars, sweepVars, gateVars, dataVars>>

\* is_user_muted(chat_id, user_id)
IsUserMutedKeepsExpired(key) ==
    /\ last_call' = Call("is_user_muted", key[2], GroupChat.type)
    /\ ret' = Bool(key \in DOMAIN muted_users /\ muted_users[key] > now)
    /\ moderated' = [chat |-> key[1], user |-> key[2], score |-> 0]
    /\ transport' = <<>>
    /\ UNCHANGED <<now, muted_users, mod_warning_counts, rlVars, spamVars, sweepVars, gateVars, dataVars>>
IsUserMuted(key) ==
    /\ last_call' = Call("is_user_muted", key[2], GroupChat.type)
    /\ IF key \notin DOMAIN muted_users
       THEN ret' = Bool(FALSE) /\ UNCHANGED muted_users
       ELSE IF muted_users[key] <= now
            THEN ret' = Bool(FALSE) /\ muted_users' = Without(muted_users, key)
            ELSE ret' = Bool(TRUE) /\ UNCHANGED muted_users
    /\ moderated' = [chat |-> key[1], user |-> key[2], score |-> 0]
    /\ transport' = <<>>
    /\ UNCHANGED <<now, mod_warning_counts, rlVars, spamVars, sweepVars, gateVars, dataVars>>

\* ------------------------------------------------- SecuritySystem
\* Strings whose characters the code looks at are sequences of characters.
UpperLetters == <<"A", "B", "C", "D", "E", "F", "G", "H", "I", "J", "K", "L", "M", "N", "O", "P", "Q", "R", "S", "T", "U", "V", "W", "X", "Y", "Z">>
LowerLetters == <<"a", "b", "c", "d", "e", "f", "g", "h", "i", "j", "k", "l", "m", "n", "o", "p", "q", "r", "s", "t", "u", "v", "w", "x", "y", "z">>
Digits == {"0", "1", "2", "3", "4", "5", "6", "7", "8", "9"}
LowerChar(c) ==
    IF \E i \in DOMAIN UpperLetters : UpperLetters[i] = c
    THEN LowerLetters[CHOOSE i \in DOMAIN UpperLetters : UpperLetters[i] = c]
    ELSE c
Letters == {LowerLetters[i] : i \in DOMAIN LowerLetters}
                \cup {UpperLetters[i] : i \in DOMAIN UpperLetters}
\* str.lower, str.isalnum, str.isspace, pattern in text
Lower(text) == [i \in DOMAIN text |-> LowerChar(text[i])]
IsAlnum(c) == c \in Digits \cup Letters
IsSpace(c) == c = " "
Contains(text, pattern) ==
    \E i \in 0..(Len(text) - Len(pattern)) : SubSeq(text, i + 1, i + Len(pattern)) = pattern
\* sum(c.isdigit() for c in text), and the characters neither alnum nor space
DigitCount(text) == Cardinality({i \in DOMAIN text : text[i] \in Digits})
SpecialCount(text) ==
    Cardinality({i \in DOMAIN text : ~IsAlnum(text[i]) /\ ~IsSpace(text[i])})

SUSPICIOUS_PATTERNS ==
    {<<"b", "o", "t">>,
     <<"s", "p", "a", "m">>,
     <<"f", "a", "k", "e">>,
     <<"t", "e", "s", "t">>,
     <<"p", "r", "o", "m", "o">>,
     <<"a", "d">>,
     <<"m", "a", "r", "k", "e", "t", "i", "n", "g">>}
PROMO_WORDS ==
    {<<"f", "r", "e", "e">>,
     <<"w", "i", "n">>,
     <<"p", "r", "i", "z", "e">>,
     <<"m", "o", "n", "e", "y">>,
     <<"b", "i", "t", "c", "o", "i", "n">>,
     <<"c", "r", "y", "p", "t", "o">>}

\* _is_suspicious_username
IsSuspiciousUsername(username) ==
    \/ LET username_lower == Lower(username)
       IN  \E pattern \in SUSPICIOUS_PATTERNS : Contains(username_lower, pattern)
    \/ Len(username) > 0
       /\ 2 * DigitCount(username) > Len(username)

\* _is_suspicious_name
IsSuspiciousName(name) ==
    \/ Len(name) = 0
    \/ 10 * SpecialCount(name) > 3 * Len(name)
    \/ LET name_lower == Lower(name)
       IN  \E word \in PROMO_WORDS : Contains(name_lower, word)

\* telegram.User: id, username ("" or None: <<>>) and first_name
User(id, username, first_name) ==
    [id |-> id, username |-> username, first_name |-> first_name]
Nobody == User(NoUser, <<>>, <<>>)
Owner == User(OWNER_ID, <<"o", "w", "n", "e", "r">>, <<"O", "w", "n", "e", "r">>)
Usernames == {<<>>, <<"r", "i", "n", "a">>, <<"B", "o", "t">>, <<"n", "a", "d", "i", "a">>, <<"x", "9", "9">>, <<"a", "b", "1", "2">>}
FirstNames == {<<>>, <<"R", "i", "n", "a">>, <<"F", "R", "E", "E">>, <<"$", "$", "a">>, <<"A", ".", " ", "B">>}
Identities == {User(id, n, f) : id \in {1, HIGH_USER_ID, 6}, n \in Usernames, f \in FirstNames}

\* verify_user_account: the issues in the order they are tested, each with
\* its contribution to verification_score
Issues(user) ==
    SelectSeq(<<[issue |-> "no_username", score |-> 1,
                 found |-> Len(user.username) = 0],
                [issue |-> "potentially_new_account", score |-> 2,
                 found |-> user.id > HIGH_USER_ID],
                [issue |-> "suspicious_username", score |-> 2,
                 found |-> Len(user.username) > 0 /\ IsSuspiciousUsername(user.username)],
                [issue |-> "suspicious_name", score |-> 1,
                 found |-> IsSuspiciousName(user.first_name)]>>,
              LAMBDA i : i.found)
IsVerifiedUpToLimit(verification_score) == verification_score <= VERIFICATION_LIMIT
IsVerified(verification_score) == verification_score < VERIFICATION_LIMIT
\* (is_verified, reason) and the suspicious set after the call
Verified(user) ==
    ~ENABLE_USER_VERIFICATION \/ IsVerified(SumScores(Issues(user)))
Reason(user) ==
    LET issues == Issues(user)
    IN  IF ~ENABLE_USER_VERIFICATION THEN <<"verification_disabled">>
        ELSE IF issues = <<>> THEN <<"verified">>
        ELSE [i \in DOMAIN issues |-> issues[i].issue]
SuspiciousAfterVerify(S, user) == IF Verified(user) THEN S ELSE S \cup {user.id}

\* ------------------------------------------------- BotData: the snapshot
\* str(random.randint(100000, 999999))
SessionIds == {"100000", "999999"}

\* str(k) and int(s) on the keys of the dicts; isoformat() and fromisoformat()
\* on the datetimes; null for None.
Str(k) == <<"str", k>>
IntOf(key) == key[2]
IsoFormat(t) == <<"iso", t>>
FromIsoFormat(iso) == iso[2]
Null == <<"null">>
IsoOrNull(t) == IF t = NoTime THEN Null ELSE IsoFormat(t)
FromIsoOrNull(j) == IF j = Null THEN NoTime ELSE FromIsoFormat(j)

\* list(a_set), in some order, and set(a_list)
RECURSIVE AsList(_)
AsList(S) ==
    IF S = {} THEN <<>>
    ELSE LET x == CHOOSE y \in S : \A z \in S : y <= z
         IN  <<x>> \o AsList(S \ {x})
AsSet(list) == {list[i] : i \in DOMAIN list}

\* xs[-n:]
LastN(xs, n) == IF Len(xs) <= n THEN xs ELSE SubSeq(xs, Len(xs) - n + 1, Len(xs))

\* BotData()
NewBotData(id) ==
    [session_id |-> id, owner_id |-> OWNER_ID, approved_users |-> {},
     banned_users |-> <<>>, group_states |-> <<>>, chat_history |-> <<>>,
     user_stats |-> <<>>, spam_violations |-> <<>>, suspicious_users |-> {},
     session_start_time |-> now, last_backup_time |-> NoTime]

\* The BotData object: the fields of bot_data and the dicts that have a
\* variable of their own.
Data ==
    [session_id |-> bot_data.session_id, owner_id |-> bot_data.owner_id,
     approved_users |-> approved_users, banned_users |-> banned_users,
     group_states |-> bot_data.group_states, chat_history |-> bot_data.chat_history,
     user_stats |-> user_stats, spam_violations |-> spam_violations,
     suspicious_users |-> bot_data.suspicious_users,
     session_start_time |-> bot_data.session_start_time,
     last_backup_time |-> bot_data.last_backup_time]

\* BotData.to_dict
ToDictWholeHistory(d) ==
    [session_id |-> d.session_id,
     owner_id |-> d.owner_id,
     approved_users |-> AsList(d.approved_users),
     banned_users |-> [k \in {Str(u) : u \in DOMAIN d.banned_users} |->
                          IsoFormat(d.banned_users[IntOf(k)])],
     group_states |-> [k \in {Str(c) : c \in DOMAIN d.group_states} |->
                          d.group_states[IntOf(k)]],
     chat_history |-> d.chat_history,
     user_stats |-> [k \in {Str(u) : u \in DOMAIN d.user_stats} |->
                        LET v == d.user_stats[IntOf(k)]
                        IN  [user_id |-> v.user_id, username |-> v.username,
                             first_seen |-> IsoFormat(v.first_seen),
                             last_seen |-> IsoFormat(v.last_seen),
                             message_count |-> v.message_count,
                             spam_score |-> v.spam_score,
                             warnings |-> v.warnings,
                             verification_status |-> v.verification_status,
                             last_spam_check |-> IsoOrNull(v.last_spam_check)]],
     spam_violations |-> [k \in {Str(u) : u \in DOMAIN d.spam_violations} |->
                             [i \in DOMAIN d.spam_violations[IntOf(k)] |->
                                 IsoFormat(d.spam_violations[IntOf(k)][i])]],
     suspicious_users |-> AsList(d.suspicious_users),
     session_start_time |-> IsoFormat(d.session_start_time),
     last_backup_time |-> IsoOrNull(d.last_backup_time)]
ToDict(d) ==
    [ToDictWholeHistory(d) EXCEPT
        !.chat_history = LastN(d.chat_history, SNAPSHOT_HISTORY)]

\* data.get(key, default)
Get(d, key, default) == IF key \in DOMAIN d THEN d[key] ELSE default

\* A dict without some of its keys
Drop(d, keys) == [k \in DOMAIN d \ keys |-> d[k]]

\* A file json.load cannot parse
Garbage == [garbage |-> TRUE]

\* The keys from_dict reads with stats_data[...]
REQUIRED_STATS_KEYS == {"user_id", "username", "first_seen", "last_seen"}

\* datetime.fromisoformat raises ValueError on a string that is not a date
NotIso(v) == v[1] # "iso"

\* json.load or BotData.from_dict raises on the file's content j
LoadRaises(j) ==
    \/ "garbage" \in DOMAIN j
    \/ LET stats == Get(j, "user_stats", <<>>)
       IN  \E k \in DOMAIN stats : ~(REQUIRED_STATS_KEYS \subseteq DOMAIN stats[k])
    \/ LET bans == Get(j, "banned_users", <<>>)
       IN  \E k \in DOMAIN bans : NotIso(bans[k])

\* BotData.from_dict(j) in a process whose BotData() draws the session id id
FromDict(j, id) ==
    LET approved == Get(j, "approved_users", <<>>)
        bans == Get(j, "banned_users", <<>>)
        groups == Get(j, "group_states", <<>>)
        stats == Get(j, "user_stats", <<>>)
        violations == Get(j, "spam_violations", <<>>)
        started == Get(j, "session_start_time", Null)
    IN
    [session_id |-> Get(j, "session_id", id),
     owner_id |-> Get(j, "owner_id", OWNER_ID),
     approved_users |-> AsSet(approved),
     banned_users |-> [u \in {IntOf(k) : k \in DOMAIN bans} |->
                          FromIsoFormat(bans[Str(u)])],
     group_states |-> [c \in {IntOf(k) : k \in DOMAIN groups} |-> groups[Str(c)]],
     chat_history |-> Get(j, "chat_history", <<>>),
     user_stats |-> [u \in {IntOf(k) : k \in DOMAIN stats} |->
                        LET v == stats[Str(u)]
                        IN  [user_id |-> v.user_id, username |-> v.username,
                             first_seen |-> FromIsoFormat(v.first_seen),
                             last_seen |-> FromIsoFormat(v.last_seen),
                             message_count |-> Get(v, "message_count", 0),
                             spam_score |-> Get(v, "spam_score", 0),
                             warnings |-> Get(v, "warnings", 0),
                             verification_status |->
                                 Get(v, "verification_status", "unverified"),
                             last_spam_check |->
                                 FromIsoOrNull(Get(v, "last_spam_check", Null))]],
     spam_violations |-> [u \in {IntOf(k) : k \in DOMAIN violations} |->
                             [i \in DOMAIN violations[Str(u)] |->
                                 FromIsoFormat(violations[Str(u)][i])]],
     suspicious_users |-> AsSet(Get(j, "suspicious_users", <<>>)),
     session_start_time |-> IF started = Null THEN now ELSE FromIsoFormat(started),
     last_backup_time |-> FromIsoOrNull(Get(j, "last_backup_time", Null))]

\* The variables take the fields of the BotData object d.
Becomes(d) ==
    /\ approved_users' = d.approved_users
    /\ banned_users' = d.banned_users
    /\ user_stats' = d.user_stats
    /\ spam_violations' = d.spam_violations
    /\ bot_data' = [session_id |-> d.session_id, owner_id |-> d.owner_id,
                    group_states |-> d.group_states, chat_history |-> d.chat_history,
                    suspicious_users |-> d.suspicious_users,
                    session_start_time |-> d.session_start_time,
                    last_backup_time |-> d.last_backup_time]

\* handle_text, lines 128-137: the dict appended to chat_history
Interaction(u, chat, t, text, score) ==
    [user_id |-> u, username |-> UserName(u), chat_type |-> chat.type,
     timestamp |-> IsoFormat(t), message |-> text, spam_score |-> score]

\* json.dump(bot_data.to_dict(), f)
WriteSnapshot ==
    /\ disk' = <<ToDict(Data)>>
    /\ last_call' = Call("to_dict", NoUser, None)
    /\ ret' = None
    /\ UNCHANGED <<now, rlVars, spamVars, modVars, sweepVars, gateVars, bot_data,
                   quarantined>>

\* BotData.from_dict(json.load(f))
ReadSnapshot ==
    /\ Len(disk) > 0
    /\ Becomes(FromDict(disk[1], bot_data.session_id))
    /\ last_call' = Call("from_dict", NoUser, None)
    /\ ret' = None
    /\ UNCHANGED <<now, rlVars, message_hashes, user_message_intervals, scored,
                   modVars, sweepVars, suspicious_users, failed_verifications,
                   replies, subject, disk, quarantined>>

\* BotData.message_hashes: created empty, and no code adds to it (the index
\* check_spam fills is AntiSpam.message_hashes)
BotDataMessageHashes == <<>>

\* clean_old_data, lines 136-144, on the dict h of lists of send times
CleanMessageHashes(h) ==
    LET kept(k) == SelectSeq(h[k], LAMBDA send_time : send_time > now - Hour)
    IN  [k \in {g \in DOMAIN h : kept(g) # <<>>} |-> kept(k)]

\* clean_old_data that drops the oldest entry of the history on every run
CleanOldDataDropsOldest(d) ==
    [d EXCEPT !.chat_history = IF Len(@) > 0 THEN Tail(@) ELSE @]

\* BotData.clean_old_data on the fields the snapshot holds; its first loop
\* leaves BotDataMessageHashes, CleanMessageHashes(<<>>), empty
CleanOldData(d) ==
    LET expired_bans == {u \in DOMAIN d.banned_users : d.banned_users[u] < now}
    IN  [d EXCEPT !.banned_users = [u \in DOMAIN @ \ expired_bans |-> @[u]],
                  !.chat_history = IF Len(@) > MAX_CHAT_HISTORY
                                   THEN LastN(@, MAX_CHAT_HISTORY) ELSE @]

\* save_data(bot_data), bot_data being d
SaveData(d) ==
    /\ Becomes(CleanOldData(d))
    /\ disk' = <<ToDict(CleanOldData(d))>>
    /\ UNCHANGED quarantined

\* What DATA_FILE holds after a write that failed: the file as it was (the
\* backup copy or open() failed), or a truncated file (json.dump failed)
FailedWrites == {disk, <<Garbage>>}

\* An exception left the handler
Raised == "raised"
\* An exception was caught and logged by the handler
Logged == "logged"

\* save_data(bot_data), bot_data being d, when writing fails and leaves file:
\* clean_old_data has run, the exception is logged and raised again
SaveDataRaises(d, file) ==
    /\ Becomes(CleanOldData(d))
    /\ disk' = file
    /\ UNCHANGED quarantined

\* bot_data.clean_old_data() on its own (cleanup_task, line 428)
CleanOldDataStep ==
    /\ Becomes(CleanOldData(Data))
    /\ last_call' = Call("clean_old_data", NoUser, None)
    /\ ret' = None
    /\ UNCHANGED <<now, rlVars, message_hashes, user_message_intervals, scored,
                   modVars, sweepVars, suspicious_users, failed_verifications,
                   replies, subject, disk, quarantined>>

\* /mystatus of a user without a username whose first name is name:
\* get_user_stats(user.id, get_user_display_name(user)), and the reply
UserStatus(u, name) ==
    /\ user_stats' = GetOrCreate(user_stats, u, name)
    /\ subject' = User(u, <<>>, name)
    /\ replies' = <<"status">>
    /\ last_call' = Call("user_status", u, name)
    /\ ret' = None
    /\ UNCHANGED <<now, rlVars, message_hashes, user_message_intervals,
                   spam_violations, scored, modVars, sweepVars, banned_users,
                   approved_users, suspicious_users, failed_verifications, dataVars>>

\* validate_input: the words of the catalogue that hold one of the
\* dangerous_patterns
DangerousWords == {"<script>x</script>"}

\* security.validate_input(text) that does not look at the length
ValidateInputAnyLength(m) ==
    IF m.len = 0 THEN <<FALSE, "empty_input">>
    ELSE IF m.words \cap DangerousWords # {} THEN <<FALSE, "potentially_malicious_input">>
    ELSE <<TRUE, "valid">>

\* security.validate_input(text) that lets one more character pass
ValidateInputLenient(m) ==
    IF m.len = 0 THEN <<FALSE, "empty_input">>
    ELSE IF m.len > MAX_INPUT_LENGTH + 1 THEN <<FALSE, "input_too_long">>
    ELSE IF m.words \cap DangerousWords # {} THEN <<FALSE, "potentially_malicious_input">>
    ELSE <<TRUE, "valid">>

\* security.validate_input(text)
ValidateInput(m) ==
    IF m.len = 0 THEN <<FALSE, "empty_input">>
    ELSE IF m.len > MAX_INPUT_LENGTH THEN <<FALSE, "input_too_long">>
    ELSE IF m.words \cap DangerousWords # {} THEN <<FALSE, "potentially_malicious_input">>
    ELSE <<TRUE, "valid">>

\* text.lower().startswith('alya'), on the catalogue, whose texts hold the
\* trigger word at their start or not at all
StartsWithAlya(m) == "alya" \in m.words

\* text[4:].strip()
WithoutTrigger(text) == <<"[4:]", text>>

\* bot_data.group_states.get(chat.id, False)
GroupState(chat) ==
    IF chat.id \in DOMAIN bot_data.group_states THEN bot_data.group_states[chat.id]
    ELSE FALSE

\* /start
Start(user) ==
    /\ suspicious_users' = SuspiciousAfterVerify(suspicious_users, user)
    /\ subject' = user
    /\ replies' = <<"welcome">>
    /\ last_call' = Call("verify_user_account", user.id, None)
    /\ ret' = <<Bool(Verified(user)), Reason(user)>>
    /\ UNCHANGED <<now, rlVars, spamVars, modVars, sweepVars, banned_users,
                   approved_users, failed_verifications, dataVars>>

\* A command of the admin menu sent by somebody else
NotAdmin(sender, op) ==
    /\ sender.id # OWNER_ID
    /\ subject' = sender
    /\ replies' = <<"admin_only">>
    /\ last_call' = Call(op, sender.id, None)
    /\ ret' = None
    /\ UNCHANGED <<now, rlVars, spamVars, modVars, sweepVars, banned_users,
                   approved_users, suspicious_users, failed_verifications, dataVars>>

\* /marksafe user_id
MarkUserSafe(sender, u) ==
    \/ NotAdmin(sender, "mark_user_safe")
    \/ /\ sender.id = OWNER_ID
       /\ suspicious_users' = suspicious_users \ {u}
       /\ failed_verifications' = Without(failed_verifications, u)
       /\ SaveData([Data EXCEPT !.user_stats =
              IF u \in DOMAIN @
              THEN [@ EXCEPT ![u].spam_score = 0, ![u].warnings = 0,
                             ![u].verification_status = "verified"]
              ELSE @])
       /\ subject' = sender
       /\ replies' = <<"marked_safe">>
       /\ last_call' = Call("mark_user_safe", u, None)
       /\ ret' = None
       /\ UNCHANGED <<now, rlVars, message_hashes, user_message_intervals, scored,
                      modVars, sweepVars>>

\* ------------------------------------------------- the access gate
\* add_failed_verification
FailedAfter(u) ==
    With(failed_verifications, u,
         IF u \in DOMAIN failed_verifications THEN failed_verifications[u] + 1 ELSE 1)

\* check_access, lines 23-36: the user's ban has run out
BanExpiredNever(u) == FALSE
BanExpired(u) == u \in DOMAIN banned_users /\ ~(banned_users[u] > now)

\* check_access(update, bot_data): the stage that answers, in the order of the
\* code, and the reply it sends
\* The last moderation handler had the member removed from the chat
RemovedFromChat(u, chat) ==
    \E i \in DOMAIN transport :
        /\ transport[i].call = "ban_chat_member" /\ transport[i].ok
        /\ transport[i].chat = chat.id /\ transport[i].user = u

\* The gate that remembers the removal
StageAfterRemoval(user, chat) ==
    LET u == user.id
    IN  IF u = OWNER_ID THEN "owner"
        ELSE IF RemovedFromChat(u, chat) THEN "banned"
        ELSE IF u \in DOMAIN banned_users /\ ~BanExpired(u) THEN "banned"
        ELSE IF AfterIsRateLimited(u, "message").ret THEN "rate_limit"
        ELSE IF u \in suspicious_users THEN "suspicious"
        ELSE "admitted"
\* The gate without the owner's early return
StageOwnerChecked(user, chat) ==
    LET u == user.id
    IN  IF u \in DOMAIN banned_users /\ ~BanExpired(u) THEN "banned"
        ELSE IF AfterIsRateLimited(u, "message").ret THEN "rate_limit"
        ELSE IF u \in suspicious_users THEN "suspicious"
        ELSE IF chat.type = "private" /\ u \notin approved_users
             THEN IF ~Verified(user) THEN "verification_failed"
                  ELSE IF ENABLE_USER_VERIFICATION THEN "verified"
                  ELSE "no_access"
        ELSE "admitted"
StageApprovalFirst(user, chat) ==
    LET u == user.id
    IN  IF u = OWNER_ID THEN "owner"
        ELSE IF chat.type = "private" /\ u \in approved_users THEN "admitted"
        ELSE IF u \in DOMAIN banned_users /\ ~BanExpired(u) THEN "banned"
        ELSE IF AfterIsRateLimited(u, "message").ret THEN "rate_limit"
        ELSE IF u \in suspicious_users THEN "suspicious"
        ELSE IF chat.type = "private" /\ u \notin approved_users
             THEN IF ~Verified(user) THEN "verification_failed"
                  ELSE IF ENABLE_USER_VERIFICATION THEN "verified"
                  ELSE "no_access"
        ELSE "admitted"
Stage(user, chat) ==
    LET u == user.id
    IN  IF u = OWNER_ID THEN "owner"
        ELSE IF u \in DOMAIN banned_users /\ ~BanExpired(u) THEN "banned"
        ELSE IF AfterIsRateLimited(u, "message").ret THEN "rate_limit"
        ELSE IF u \in suspicious_users THEN "suspicious"
        ELSE IF chat.type = "private" /\ u \notin approved_users
             THEN IF ~Verified(user) THEN "verification_failed"
                  ELSE IF ENABLE_USER_VERIFICATION THEN "verified"
                  ELSE "no_access"
        ELSE "admitted"
Admitting == {"owner", "verified", "admitted"}

CheckAccess(user, chat) ==
    LET u == user.id
        stage == Stage(user, chat)
        expired == BanExpired(u)
        data == [Data EXCEPT
                    !.banned_users = IF expired THEN Without(@, u) ELSE @,
                    !.approved_users = IF stage = "verified" THEN @ \cup {u} ELSE @]
    IN  /\ last_call' = Call("check_access", u, chat.type)
        /\ ret' = (stage \in Admitting)
        /\ subject' = user
        /\ replies' = IF stage \in {"owner", "admitted"} THEN <<>> ELSE <<stage>>
        /\ IF stage \in {"owner", "banned"}
           THEN UNCHANGED rlVars
           ELSE RateLimiterBecomes(AfterIsRateLimited(u, "message"))
        /\ IF stage = "verification_failed"
           THEN /\ suspicious_users' = SuspiciousAfterVerify(suspicious_users, user)
                                       \cup (IF FailedAfter(u)[u] >= FAILED_VERIFICATION_LIMIT
                                             THEN {u} ELSE {})
                /\ failed_verifications' = FailedAfter(u)
           ELSE UNCHANGED <<suspicious_users, failed_verifications>>
        /\ IF stage \notin {"owner", "banned"} /\ (expired \/ stage = "verified")
           THEN SaveData(data)
           ELSE UNCHANGED <<approved_users, banned_users, user_stats, spam_violations,
                            dataVars>>
        /\ UNCHANGED <<now, message_hashes, user_message_intervals, scored,
                       modVars, sweepVars>>

\* handle_text, lines 121-139, after check_spam found no spam: the request is
\* added to the rate limiter, the interaction is counted, logged and saved
LogInteractionIn(u, chat, text) ==
    /\ last_call.op = "check_spam" /\ last_call.user = u /\ ~ret.is_spam
    /\ Len(user_requests[u]) < MaxWindow
    /\ user_requests' = [user_requests EXCEPT ![u] = Append(@, now)]
    /\ LET stats == GetOrCreate(user_stats, u, UserName(u))
       IN  SaveData([Data EXCEPT
               !.user_stats = [stats EXCEPT ![u].message_count = @ + 1],
               !.chat_history = Append(@, Interaction(u, chat, now, text, ret.score))])
    /\ last_call' = Call("save_data", u, None)
    /\ ret' = None
    /\ UNCHANGED <<now, api_requests, cooldown_users, warning_counts, cooldown_log, config,
                   message_hashes, user_message_intervals, scored, modVars, sweepVars,
                   suspicious_users, failed_verifications, replies, subject>>

\* The same for a private message, whose text is logged as it came
LogInteraction(u) == LogInteractionIn(u, PrivateChat, last_call.type)

\* handle_text, lines 121-139, when save_data raises: the lines after 139 do
\* not run, error_handler replies
LogInteractionRaises(u, file) ==
    /\ last_call.op = "check_spam" /\ last_call.user = u /\ ~ret.is_spam
    /\ Len(user_requests[u]) < MaxWindow
    /\ user_requests' = [user_requests EXCEPT ![u] = Append(@, now)]
    /\ LET stats == GetOrCreate(user_stats, u, UserName(u))
       IN  SaveDataRaises([Data EXCEPT
               !.user_stats = [stats EXCEPT ![u].message_count = @ + 1],
               !.chat_history = Append(@, Interaction(u, PrivateChat, now,
                                                      last_call.type, ret.score))],
               file)
    /\ last_call' = Call("save_data", u, None)
    /\ ret' = Raised
    /\ replies' = <<"system_error">>
    /\ UNCHANGED <<now, api_requests, cooldown_users, warning_counts, cooldown_log, config,
                   message_hashes, user_message_intervals, scored, modVars, sweepVars,
                   suspicious_users, failed_verifications, subject>>

\* An admin command run by the owner: what it leaves alone, and its footprint
AdminCommand(sender, op, u, reply) ==
    /\ sender.id = OWNER_ID
    /\ subject' = sender
    /\ replies' = <<reply>>
    /\ last_call' = Call(op, u, None)
    /\ ret' = None
    /\ UNCHANGED <<now, modVars, sweepVars>>

\* /akses user_id
GrantAccess(sender, u) ==
    \/ NotAdmin(sender, "grant_access")
    \/ /\ AdminCommand(sender, "grant_access", u, "granted")
       /\ suspicious_users' = suspicious_users \ {u}
       /\ failed_verifications' = Without(failed_verifications, u)
       /\ SaveData([Data EXCEPT !.approved_users = @ \cup {u},
                                !.banned_users = Without(@, u)])
       /\ UNCHANGED <<rlVars, message_hashes, user_message_intervals, scored>>

\* /akses user_id when save_data raises: the exception is not an IndexError
\* or ValueError, the lines after save_data do not run, error_handler replies
GrantAccessRaises(sender, u, file) ==
    /\ sender.id = OWNER_ID
    /\ subject' = sender
    /\ suspicious_users' = suspicious_users \ {u}
    /\ failed_verifications' = Without(failed_verifications, u)
    /\ SaveDataRaises([Data EXCEPT !.approved_users = @ \cup {u},
                                   !.banned_users = Without(@, u)], file)
    /\ replies' = <<"system_error">>
    /\ last_call' = Call("grant_access", u, None)
    /\ ret' = Raised
    /\ UNCHANGED <<now, modVars, sweepVars, rlVars, message_hashes,
                   user_message_intervals, scored>>

\* /on and /off in a chat: toggle_group_state(update, state)
ToggleGroupState(sender, chat, state) ==
    \/ NotAdmin(sender, "toggle_group_state")
    \/ /\ AdminCommand(sender, "toggle_group_state", NoUser,
                       IF state THEN "turned_on" ELSE "turned_off")
       /\ SaveData([Data EXCEPT !.group_states = With(@, chat.id, state)])
       /\ UNCHANGED <<rlVars, message_hashes, user_message_intervals, scored,
                      suspicious_users, failed_verifications>>

\* handle_text, lines 90-119, for the text m that check_access admitted in
\* the chat: validate_input and its reply, the group's state and trigger
\* word, check_spam
HandleTextInput(u, chat, m) ==
    /\ last_call.op = "check_access" /\ last_call.user = u /\ last_call.type = chat.type
    /\ ret
    /\ IF ~ValidateInput(m)[1]
       THEN /\ last_call' = Call("validate_input", u, m.text)
            /\ ret' = ValidateInput(m)
            /\ replies' = <<"invalid_input">>
            /\ UNCHANGED <<now, rlVars, spamVars, modVars, sweepVars, banned_users,
                           approved_users, suspicious_users, failed_verifications,
                           subject, dataVars>>
       ELSE IF chat.type # "private" /\ (~GroupState(chat) \/ ~StartsWithAlya(m))
       THEN /\ last_call' = Call("handle_text", u, m.text)
            /\ ret' = None
            /\ UNCHANGED <<now, rlVars, spamVars, modVars, sweepVars, gateVars, dataVars>>
       ELSE CheckSpam(u, m)

\* handle_text, lines 115-119: check_spam found spam in the chat
ModerateSpam(u, chat, ok) ==
    /\ last_call.op = "check_spam" /\ last_call.user = u /\ ret.is_spam
    /\ HandleSpamViolation(chat, u, ret.score, ok)

\* The captions of a photo: none, one with the trigger word, one without
NoCaption == ""
Captions == {NoCaption, "alya look", "look"}

\* handle_image, lines 167-171: the group is off, or the caption is there and
\* does not start with the trigger word
ImageIgnored(chat, caption) ==
    /\ chat.type # "private"
    /\ \/ ~GroupState(chat)
       \/ caption = "look"

\* handle_image after check_access admitted the photo: the group's state and
\* the caption, the "api" limit, the two requests added, the record and the
\* history entry saved
HandleImage(u, chat, caption) ==
    /\ last_call.op = "check_access" /\ last_call.user = u /\ last_call.type = chat.type
    /\ ret
    /\ last_call' = Call("handle_image", u, caption)
    /\ UNCHANGED <<now, message_hashes, user_message_intervals, scored, modVars, sweepVars,
                   suspicious_users, failed_verifications, subject>>
    /\ LET a == AfterIsRateLimited(u, "api")
       IN  IF ImageIgnored(chat, caption)
           THEN /\ ret' = None
                /\ UNCHANGED <<rlVars, replies, banned_users, approved_users, user_stats,
                               spam_violations, dataVars>>
           ELSE IF a.ret
           THEN /\ ret' = "rate_limit"
                /\ RateLimiterBecomes(a)
                /\ replies' = <<"image_rate_limit">>
                /\ UNCHANGED <<banned_users, approved_users, user_stats,
                               spam_violations, dataVars>>
           ELSE /\ ret' = None
                /\ user_requests' = [a.user_requests EXCEPT ![u] = Append(@, now)]
                /\ api_requests' = [a.api_requests EXCEPT ![u] = Append(@, now)]
                /\ cooldown_users' = a.cooldown_users
                /\ UNCHANGED <<warning_counts, cooldown_log, config, replies>>
                /\ LET stats == GetOrCreate(user_stats, u, UserName(u))
                   IN  SaveData([Data EXCEPT
                           !.user_stats = [stats EXCEPT ![u].message_count = @ + 1],
                           !.chat_history =
                               Append(@, Interaction(u, chat, now, <<"[PHOTO]", caption>>, 0))])

\* sum(len(v) for v in bot_data.spam_violations.values())
TotalViolations ==
    Cardinality(UNION {{<<u, i>> : i \in DOMAIN spam_violations[u]} :
                          u \in DOMAIN spam_violations})

\* /adminstatus: the figures of the reply that come from BotData
AdminStatus(sender) ==
    \/ NotAdmin(sender, "admin_status")
    \/ /\ sender.id = OWNER_ID
       /\ subject' = sender
       /\ replies' = <<"admin_status">>
       /\ last_call' = Call("admin_status", NoUser, None)
       /\ ret' = [approved |-> Cardinality(approved_users),
                  banned |-> Cardinality(DOMAIN banned_users),
                  total_processed |-> Len(bot_data.chat_history),
                  spam_violations |-> TotalViolations]
       /\ UNCHANGED <<now, rlVars, spamVars, modVars, sweepVars, banned_users,
                      approved_users, suspicious_users, failed_verifications, dataVars>>

\* /hapus_akses user_id
RevokeAccess(sender, u) ==
    \/ NotAdmin(sender, "revoke_access")
    \/ /\ AdminCommand(sender, "revoke_access", u, "revoked")
       /\ SaveData([Data EXCEPT !.approved_users = @ \ {u}])
       /\ UNCHANGED <<rlVars, message_hashes, user_message_intervals, scored,
                      suspicious_users, failed_verifications>>

\* /ban user_id days
BanEndNeverPermanent(duration) == now + duration * Day
BanEnd(duration) == IF duration > 0 THEN now + duration * Day ELSE DatetimeMax
BanUserCmd(sender, u, duration) ==
    \/ NotAdmin(sender, "ban_user")
    \/ /\ AdminCommand(sender, "ban_user", u, "banned_by_admin")
       /\ SaveData([Data EXCEPT !.banned_users = With(@, u, BanEnd(duration))])
       /\ UNCHANGED <<rlVars, message_hashes, user_message_intervals, scored,
                      suspicious_users, failed_verifications>>

\* /unban user_id
UnbanUser(sender, u) ==
    \/ NotAdmin(sender, "unban_user")
    \/ /\ AdminCommand(sender, "unban_user", u,
                       IF u \in DOMAIN banned_users THEN "unbanned" ELSE "not_banned")
       /\ IF u \in DOMAIN banned_users
          THEN SaveData([Data EXCEPT !.banned_users = Without(@, u)])
          ELSE UNCHANGED <<approved_users, banned_users, user_stats, spam_violations,
                           dataVars>>
       /\ UNCHANGED <<rlVars, message_hashes, user_message_intervals, scored,
                      suspicious_users, failed_verifications>>

\* reset_user_spam_data, lines 209-215: the hash buckets without the user's entries
HashesWithout(u) ==
    LET kept(h) == SelectSeq(message_hashes[h], LAMBDA x : x[1] # u)
    IN  [h \in {g \in DOMAIN message_hashes : kept(g) # <<>>} |-> kept(h)]

\* /resetlimit user_id
ResetUserLimitsCmd(sender, u) ==
    \/ NotAdmin(sender, "reset_user_limits")
    \/ /\ AdminCommand(sender, "reset_user_limits", u, "limits_reset")
       /\ user_requests' = [user_requests EXCEPT ![u] = <<>>]
       /\ api_requests' = [api_requests EXCEPT ![u] = <<>>]
       /\ cooldown_users' = Without(cooldown_users, u)
       /\ warning_counts' = [warning_counts EXCEPT ![u] = 0]
       /\ cooldown_log' = [cooldown_log EXCEPT ![u] = [breaches |-> 0, minutes |-> 0]]
       /\ UNCHANGED config
       /\ user_message_intervals' = Without(user_message_intervals, u)
       /\ message_hashes' = HashesWithout(u)
       /\ UNCHANGED <<user_stats, spam_violations, scored, banned_users, approved_users,
                      suspicious_users, failed_verifications, dataVars>>

\* cleanup_task with no mute to lift: clean_old_data, the automatic backup when
\* it is due, save_data
CleanupTask ==
    /\ muted_users = <<>>
    /\ LET due == \/ bot_data.last_backup_time = NoTime
                  \/ now - bot_data.last_backup_time >= AUTO_BACKUP_INTERVAL
       IN  SaveData([Data EXCEPT !.last_backup_time = IF due THEN now ELSE @])
    /\ last_call' = Call("cleanup_task", NoUser, None)
    /\ ret' = None
    /\ UNCHANGED <<now, rlVars, message_hashes, user_message_intervals, scored,
                   modVars, sweepVars, suspicious_users, failed_verifications,
                   replies, subject>>

\* os.rename(DATA_FILE, DATA_FILE.error.<now>): the name holds the second
QuarantineDeletes(files, f) == files
Quarantine(files, f) == With(files, now, f)

\* load_data() in a process whose BotData() draws the session id id
LoadData(id) ==
    IF disk = <<>>
    THEN Becomes(NewBotData(id)) /\ UNCHANGED <<disk, quarantined>>
    ELSE IF LoadRaises(disk[1])
    THEN /\ Becomes(NewBotData(id))
         /\ disk' = <<>>
         /\ quarantined' = Quarantine(quarantined, disk[1])
    ELSE Becomes(FromDict(disk[1], id)) /\ UNCHANGED <<disk, quarantined>>

\* cleanup_task when save_data raises: its except clause logs the exception
CleanupTaskRaises(file) ==
    /\ muted_users = <<>>
    /\ LET due == \/ bot_data.last_backup_time = NoTime
                  \/ now - bot_data.last_backup_time >= AUTO_BACKUP_INTERVAL
       IN  SaveDataRaises([Data EXCEPT !.last_backup_time = IF due THEN now ELSE @], file)
    /\ last_call' = Call("cleanup_task", NoUser, None)
    /\ ret' = Logged
    /\ UNCHANGED <<now, rlVars, message_hashes, user_message_intervals, scored,
                   modVars, sweepVars, suspicious_users, failed_verifications,
                   replies, subject>>

\* The process stops and starts again: load_data() and the module-level
\* RateLimiter(), AntiSpam(), ModerationSystem() and SecuritySystem()
Restart(id) ==
    /\ LoadData(id)
    /\ user_requests' = [u \in DOMAIN user_requests |-> <<>>]
    /\ api_requests' = [u \in DOMAIN api_requests |-> <<>>]
    /\ cooldown_users' = <<>>
    /\ warning_counts' = [u \in DOMAIN warning_counts |-> 0]
    /\ cooldown_log' = [u \in DOMAIN cooldown_log |-> [breaches |-> 0, minutes |-> 0]]
    /\ UNCHANGED config
    /\ message_hashes' = <<>>
    /\ user_message_intervals' = <<>>
    /\ scored' = <<>>
    /\ mod_warning_counts' = <<>>
    /\ muted_users' = <<>>
    /\ moderated' = [chat |-> 0, user |-> NoUser, score |-> 0]
    /\ transport' = <<>>
    /\ sweep' = Idle
    /\ suspicious_users' = {}
    /\ failed_verifications' = <<>>
    /\ replies' = <<>>
    /\ subject' = Nobody
    /\ last_call' = Call("load_data", NoUser, None)
    /\ ret' = None
    /\ UNCHANGED now

\* The configuration of a process started with the two caps in its environment
Configured == [MAX_MESSAGES_PER_MINUTE |-> MAX_MESSAGES_PER_MINUTE,
               MAX_MESSAGES_PER_HOUR |-> MAX_MESSAGES_PER_HOUR]

InitRL ==
    /\ now = 0
    /\ config = Configured
    /\ user_requests = [u \in Users |-> <<>>]
    /\ api_requests = [u \in Users |-> <<>>]
    /\ cooldown_users = <<>>
    /\ warning_counts = [u \in Users |-> 0]
    /\ cooldown_log = [u \in Users |-> [breaches |-> 0, minutes |-> 0]]
    /\ last_call = Call("init", NoUser, None)
    /\ ret = None

InitSpam ==
    /\ message_hashes = <<>>
    /\ user_message_intervals = <<>>
    /\ user_stats = <<>>
    /\ spam_violations = <<>>
    /\ scored = <<>>

InitMod ==
    /\ mod_warning_counts = <<>>
    /\ muted_users = <<>>
    /\ moderated = [chat |-> 0, user |-> NoUser, score |-> 0]
    /\ transport = <<>>
    /\ sweep = Idle

\* SecuritySystem(), BotData() and no data file
InitGate ==
    /\ banned_users = <<>>
    /\ approved_users = {}
    /\ suspicious_users = {}
    /\ failed_verifications = <<>>
    /\ replies = <<>>
    /\ subject = Nobody

InitData ==
    /\ bot_data = [session_id |-> "100000", owner_id |-> OWNER_ID,
                   group_states |-> <<>>, chat_history |-> <<>>,
                   suspicious_users |-> {}, session_start_time |-> 0,
                   last_backup_time |-> NoTime]
    /\ disk = <<>>
    /\ quarantined = <<>>

Init == InitRL /\ InitSpam /\ InitMod /\ InitGate /\ InitData

NextRL ==
    \/ \E u \in Users, t \in RequestTypes : IsRateLimited(u, t)
    \/ \E u \in Users, t \in RequestTypes : AddRequest(u, t)
    \/ \E u \in Users : GetCooldownRemaining(u)
    \/ \E u \in Users : ResetUserLimits(u)
    \/ \E u \in Users : GetUserStats(u)
    \/ \E t \in Readings : Tick(t)

SpecRL == Init /\ [][NextRL]_vars

\* ------------------------------------------------ the cooldown ladder
\* The same calls, with the clock jumping from one cooldown expiry to the next:
\* the run that climbs the progressive cooldown up to its cap.
TickToExpiry(u) ==
    /\ cooldown_users[u] <= MaxLadderMinutes * Minute
    /\ Tick(cooldown_users[u])

NextLadder ==
    \/ \E u \in Users, t \in RequestTypes : IsRateLimited(u, t)
    \/ \E u \in Users, t \in RequestTypes : AddRequest(u, t)
    \/ \E u \in Users : ResetUserLimits(u)
    \/ \E u \in DOMAIN cooldown_users : TickToExpiry(u)

SpecLadder == Init /\ [][NextLadder]_vars

\* ------------------------------------------------ the spam scorer
\* The clock readings of the scorer's specifications.
SpamReadings == {0, TickStep, Hour}

\* A few texts sent again and again by the two senders.
NextSpam ==
    \/ \E u \in Senders, m \in Repeated :
           /\ Len(scored) < MaxScored
           /\ CheckSpam(u, m)
    \/ \E t \in SpamReadings : Tick(t)

SpecSpam == Init /\ [][NextSpam]_vars

\* Every text of the catalogue: MaxCatalogued messages of any senders and
\* texts, or one sender repeating one text up to MaxScored times.
OneSenderOneText(u, m) == \A i \in DOMAIN scored : scored[i].user = u /\ scored[i].text = m.text

NextScore ==
    \/ \E u \in Senders, m \in Catalogue :
           /\ \/ Len(scored) < MaxCatalogued
              \/ Len(scored) < MaxScored /\ OneSenderOneText(u, m)
           /\ CheckSpam(u, m)
    \/ \E t \in SpamReadings : Tick(t)

SpecScore == Init /\ [][NextScore]_vars

\* One sender writing up to MaxCadence messages, a second one among the first
\* MaxCatalogued, at clock readings on both sides of the 30-second window.
CadenceReadings == {10, RAPID_WINDOW_SECONDS, RAPID_WINDOW_SECONDS + 10,
                    2 * RAPID_WINDOW_SECONDS + 1}

NextCadence ==
    \/ \E u \in Senders :
           /\ Len(scored) < MaxCadence
           /\ u # 1 => Len(scored) < MaxCatalogued
           /\ CheckSpam(u, MsgPlain)
    \/ \E t \in CadenceReadings : Tick(t)

SpecCadence == Init /\ [][NextCadence]_vars

\* ------------------------------------------------ the moderation system
\* The clock readings of the moderation system's specification: process
\* start, and the expiries of the two mutes set at process start.
ModReadings == {0, MUTE_MINUTES * Minute, AUTO_MUTE_MINUTES * Minute}

\* Spam verdicts on a member's messages in a group and in a private chat, with every
\* outcome of the Telegram requests, and the two admin operations.
NextMod ==
    \/ \E chat \in Chats, u \in Members, s \in Scores, ok \in Outcomes :
           /\ GetUserWarnings(<<chat.id, u>>) < MaxWarnings
           /\ HandleSpamViolation(chat, u, s, ok)
    \/ \E chat \in Chats, u \in Members : ClearUserWarnings(chat, u)
    \/ \E chat \in Chats, u \in Members, ok \in Outcomes : UnmuteUser(chat, u, ok)
    \/ \E t \in ModReadings : Tick(t)

SpecMod == Init /\ [][NextMod]_vars

\* ------------------------------------------------ the periodic sweep
\* The sweep interleaved, step by step, with the admin's /mute and /unmute
\* and with is_user_muted, for two members of the group.
NextSweep ==
    \/ SweepStart
    \/ \E key \in MuteKeys, ok \in BOOLEAN : SweepResume(key, ok)
    \/ \E key \in MuteKeys, minutes \in MuteArgs, ok \in Outcomes :
           MuteUserCmd(key, minutes, ok)
    \/ \E u \in Senders, ok \in Outcomes : UnmuteUser(GroupChat, u, ok)
    \/ \E key \in MuteKeys : IsUserMuted(key)
    \/ \E t \in ModReadings : Tick(t)

SpecSweep == Init /\ [][NextSweep]_vars

\* cleanup_task is run by the job queue every 300 seconds, and the transport
\* answers some request of every sweep that keeps asking.
SpecSweepFair ==
    /\ SpecSweep
    /\ WF_sweepVars(SweepStart)
    /\ SF_sweepVars(\E key \in MuteKeys : SweepResume(key, TRUE))

\* ---- the access gate: text messages, admin commands, the cleanup task and
\* restarts of the process.  The owner writes in the group, the other account
\* in the group and in private.
\* One account besides the owner's, seen under two profiles: a plain one, and
\* one whose username and first name both look suspicious (2 + 1).
Rina == User(1, <<"r", "i", "n", "a">>, <<"R", "i", "n", "a">>)
Renamed == User(1, <<"B", "o", "t">>, <<"F", "R", "E", "E">>)
GateUsers == {Rina, Renamed, Owner}
GateIds == {user.id : user \in GateUsers}
Targets == {1}
\* The clock of the gate's specification: process start, and an hour after a
\* ban of one day set at the start has run out.
GateReadings == {0, Day + Hour}
BanDays == {0, 1}

InitGateSpec ==
    /\ now = 0
    /\ config = Configured
    /\ user_requests = [u \in GateIds |-> <<>>]
    /\ api_requests = [u \in GateIds |-> <<>>]
    /\ cooldown_users = <<>>
    /\ warning_counts = [u \in GateIds |-> 0]
    /\ cooldown_log = [u \in GateIds |-> [breaches |-> 0, minutes |-> 0]]
    /\ last_call = Call("init", NoUser, None)
    /\ ret = None
    /\ InitSpam /\ InitMod /\ InitGate /\ InitData

\* handle_text between its calls: check_access admitted a private message, or
\* check_spam found no spam in it, or the interaction was saved, or the "api"
\* limit was checked and not hit.  Updates are handled one at a time.
InHandleText ==
    \/ last_call.op = "check_access" /\ ret /\ last_call.type = "private"
    \/ last_call.op = "check_spam" /\ ~ret.is_spam
    \/ last_call.op = "save_data" /\ ret = None
    \/ last_call.op = "is_rate_limited" /\ ~ret

HandleTextStep(u) ==
    \/ /\ last_call.op = "check_access" /\ last_call.user = u
       /\ CheckSpam(u, MsgPlain)
    \/ LogInteraction(u)
    \/ /\ last_call.op = "save_data" /\ last_call.user = u /\ ret = None
       /\ IsRateLimited(u, "api")
    \/ /\ last_call.op = "is_rate_limited" /\ last_call.user = u
       /\ AddRequest(u, "api")

NextGate ==
    IF InHandleText
    THEN \E u \in GateIds : HandleTextStep(u)
    ELSE \/ \E user \in GateUsers, chat \in Chats :
                /\ user = Owner => chat = GroupChat
                /\ Len(scored) < MaxScored
                /\ Len(bot_data.chat_history) < MaxLogged
                /\ CheckAccess(user, chat)
         \/ \E sender \in {Owner, Rina}, u \in Targets :
                \/ GrantAccess(sender, u)
                \/ RevokeAccess(sender, u)
                \/ \E duration \in BanDays : BanUserCmd(sender, u, duration)
                \/ UnbanUser(sender, u)
                \/ MarkUserSafe(sender, u)
                \/ ResetUserLimitsCmd(sender, u)
         \/ CleanupTask
         \/ \E id \in {"100000"} : Restart(id)
         \/ \E t \in GateReadings : Tick(t)

SpecGate == InitGateSpec /\ [][NextGate]_vars

\* ---- account verification: /start from any identity, /marksafe
Stranger == User(1, <<>>, <<>>)
NextVerify ==
    \/ \E user \in Identities : Start(user)
    \/ \E sender \in {Owner, Stranger}, u \in {1, HIGH_USER_ID, 6} : MarkUserSafe(sender, u)

SpecVerify == Init /\ [][NextVerify]_vars

\* ---- the snapshot: to_dict and from_dict on populated BotData objects
BanEnds == {Day, DatetimeMax}
StatsOf(u, checked) ==
    [user_id |-> u, username |-> UserName(u), first_seen |-> 0, last_seen |-> Minute,
     message_count |-> 2, spam_score |-> 1, warnings |-> 0,
     verification_status |-> "unverified", last_spam_check |-> checked]
HistoryLengths == {0, 1, SNAPSHOT_HISTORY, MaxHistory}
Histories ==
    {[i \in 1..n |-> Interaction(1, PrivateChat, i, "halo", 0)] : n \in HistoryLengths}

InitSnapshot ==
    /\ InitRL /\ InitMod
    /\ message_hashes = <<>> /\ user_message_intervals = <<>> /\ scored = <<>>
    /\ suspicious_users = {} /\ failed_verifications = <<>> /\ replies = <<>>
    /\ subject = Nobody
    /\ disk = <<>>
    /\ quarantined = <<>>
    /\ approved_users \in SUBSET Senders
    /\ banned_users \in {<<>>} \cup {[u \in {6} |-> e] : e \in BanEnds}
    /\ user_stats \in {<<>>} \cup {[u \in {1} |-> StatsOf(u, c)] : c \in {NoTime, Minute}}
    /\ spam_violations \in {<<>>, [u \in {6} |-> <<0, Minute>>]}
    /\ \E id \in SessionIds, h \in Histories, b \in {NoTime, Hour},
          g \in {<<>>, [c \in {GroupChat.id} |-> TRUE]} :
          bot_data = [session_id |-> id, owner_id |-> OWNER_ID, group_states |-> g,
                      chat_history |-> h, suspicious_users |-> {},
                      session_start_time |-> 0, last_backup_time |-> b]

NextSnapshot == WriteSnapshot \/ ReadSnapshot

SpecSnapshot == InitSnapshot /\ [][NextSnapshot]_vars

\* ---- handle_text in a group, from check_access to the moderation system
GroupTexts == {NoText, MsgPlain, MsgAlya, MsgAlyaLink, MsgAlyaAll, MsgFlood, MsgScript}
AllSucceed == [site \in CallSites |-> TRUE]
TextReadings == {TickStep}

\* handle_text between its calls in the group
InGroupText ==
    \/ last_call.op = "check_access" /\ ret /\ last_call.type = GroupChat.type
    \/ last_call.op = "check_spam"
    \/ last_call.op = "save_data" /\ ret = None
    \/ last_call.op = "is_rate_limited" /\ ~ret

GroupTextStep(u) ==
    \/ \E m \in GroupTexts : HandleTextInput(u, GroupChat, m)
    \/ ModerateSpam(u, GroupChat, AllSucceed)
    \/ LogInteractionIn(u, GroupChat, WithoutTrigger(last_call.type))
    \/ /\ last_call.op = "save_data" /\ last_call.user = u /\ ret = None
       /\ IsRateLimited(u, "api")
    \/ /\ last_call.op = "is_rate_limited" /\ last_call.user = u
       /\ AddRequest(u, "api")

NextText ==
    IF InGroupText
    THEN \E u \in Users : GroupTextStep(u)
    ELSE \/ /\ Len(scored) < MaxScored
            /\ CheckAccess(Rina, GroupChat)
         \/ \E sender \in {Owner, Rina}, state \in BOOLEAN :
                ToggleGroupState(sender, GroupChat, state)
         \/ \E t \in TextReadings : Tick(t)

SpecText == InitGateSpec /\ [][NextText]_vars

\* ---- the user records: every handler that writes BotData.user_stats
DisplayNames == {"alice b", "unknown"}
StatsReadings == {Minute}

NextStats ==
    \/ \E u \in Users, name \in DisplayNames : UserStatus(u, name)
    \/ \E u \in Users, m \in {MsgPlain, MsgAll} :
           /\ Len(scored) < MaxCatalogued
           /\ Len(bot_data.chat_history) + Len(Lookup(spam_violations, u)) < MaxCatalogued
           /\ CheckSpam(u, m)
    \/ \E u \in Users : LogInteraction(u)
    \/ \E sender \in {Owner, Stranger}, u \in Users : MarkUserSafe(sender, u)
    \/ CleanupTask
    \/ \E id \in {"100000"} : Restart(id)
    \/ \E t \in StatsReadings : Tick(t)

SpecStats == Init /\ [][NextStats]_vars

\* ---- the cumulative spam score: messages, /marksafe, /resetlimit, the
\* periodic task and restarts
NextCumulative ==
    \/ \E u \in Users, m \in {MsgPlain, MsgAll} :
           /\ Len(scored) < MaxCatalogued
           /\ Len(bot_data.chat_history) + Len(Lookup(spam_violations, u)) < MaxCatalogued
           /\ CheckSpam(u, m)
    \/ \E u \in Users : LogInteraction(u)
    \/ \E sender \in {Owner, Stranger}, u \in Users :
           \/ MarkUserSafe(sender, u)
           \/ ResetUserLimitsCmd(sender, u)
    \/ CleanupTask
    \/ \E id \in {"100000"} : Restart(id)
    \/ \E t \in StatsReadings : Tick(t)

SpecCumulative == Init /\ [][NextCumulative]_vars

\* ---- clean_old_data on populated BotData objects
PruneBanEnds == {Minute, Hour, Day, DatetimeMax}
PruneReadings == {Hour, Day + Hour}
PruneLengths == {0, 1, MAX_CHAT_HISTORY, MaxPruned}
PruneHistories ==
    {[i \in 1..n |-> Interaction(1, PrivateChat, i, "halo", 0)] : n \in PruneLengths}

InitPrune ==
    /\ InitRL /\ InitMod /\ InitSpam
    /\ suspicious_users = {} /\ failed_verifications = <<>> /\ replies = <<>>
    /\ subject = Nobody
    /\ disk = <<>>
    /\ quarantined = <<>>
    /\ approved_users = {1}
    /\ \E S \in SUBSET {1, 6} : banned_users \in [S -> PruneBanEnds]
    /\ \E h \in PruneHistories :
          bot_data = [session_id |-> "100000", owner_id |-> OWNER_ID,
                      group_states |-> <<>>, chat_history |-> h,
                      suspicious_users |-> {}, session_start_time |-> 0,
                      last_backup_time |-> NoTime]

NextPrune ==
    \/ CleanOldDataStep
    \/ CleanupTask
    \/ /\ Len(scored) < MaxCatalogued
       /\ CheckSpam(1, MsgPlain)
    \/ \E t \in PruneReadings : Tick(t)

SpecPrune == InitPrune /\ [][NextPrune]_vars

\* ---- the violation log: spam and plain messages, /adminstatus, the
\* periodic task
NextLog ==
    \/ \E u \in Users, m \in {MsgPlain, MsgAll} :
           /\ Len(scored) < MaxCatalogued
           /\ CheckSpam(u, m)
    \/ \E sender \in {Owner, Stranger} : AdminStatus(sender)
    \/ CleanupTask
    \/ \E t \in PruneReadings : Tick(t)

SpecLog == Init /\ [][NextLog]_vars

\* ---- duplicate detection: the two senders sending one text, /resetlimit for
\* either of them, at clock readings inside and outside the hour
DuplicateReadings == {Minute, Hour + Minute}

NextDuplicates ==
    \/ \E u \in Senders :
           /\ Len(scored) < MaxScored
           /\ CheckSpam(u, MsgPlain)
    \/ \E sender \in {Owner, Stranger}, u \in Senders : ResetUserLimitsCmd(sender, u)
    \/ \E t \in DuplicateReadings : Tick(t)

SpecDuplicates == Init /\ [][NextDuplicates]_vars

\* ---- the automatic ban: group messages below and above AUTO_BAN_SPAM_SCORE,
\* the ban request succeeding or failing, and the member's next messages
BanTexts == {MsgAlya, MsgAlyaAll}
BanFails == [site \in CallSites |-> site # "ban_chat_member"]

BanTextStep(u) ==
    \/ \E m \in BanTexts : HandleTextInput(u, GroupChat, m)
    \/ \E ok \in {AllSucceed, BanFails} : ModerateSpam(u, GroupChat, ok)
    \/ LogInteractionIn(u, GroupChat, WithoutTrigger(last_call.type))
    \/ /\ last_call.op = "save_data" /\ last_call.user = u /\ ret = None
       /\ IsRateLimited(u, "api")
    \/ /\ last_call.op = "is_rate_limited" /\ last_call.user = u
       /\ AddRequest(u, "api")

NextBan ==
    IF InGroupText
    THEN \E u \in Users : BanTextStep(u)
    ELSE \/ /\ Len(scored) < MaxScored
            /\ CheckAccess(Rina, GroupChat)
         \/ \E sender \in {Owner, Rina}, state \in BOOLEAN :
                ToggleGroupState(sender, GroupChat, state)
         \/ \E t \in TextReadings : Tick(t)

SpecBan == InitGateSpec /\ [][NextBan]_vars

\* ---- a burst of photos and texts with the default caps: one user in a
\* private chat, /resetlimit, the clock inside the minute, past it and at the
\* expiry of the cooldown
Defaults == [MAX_MESSAGES_PER_MINUTE |-> DEFAULT_MESSAGES_PER_MINUTE,
             MAX_MESSAGES_PER_HOUR |-> DEFAULT_MESSAGES_PER_HOUR]

InitDefaults ==
    /\ now = 0
    /\ config = Defaults
    /\ user_requests = [u \in GateIds |-> <<>>]
    /\ api_requests = [u \in GateIds |-> <<>>]
    /\ cooldown_users = <<>>
    /\ warning_counts = [u \in GateIds |-> 0]
    /\ cooldown_log = [u \in GateIds |-> [breaches |-> 0, minutes |-> 0]]
    /\ last_call = Call("init", NoUser, None)
    /\ ret = None
    /\ InitSpam /\ InitMod /\ InitGate /\ InitData

BurstReadings == {TickStep, Minute + TickStep}

\* handle_text and handle_image after check_access admitted the update
BurstStep(u) ==
    \/ HandleImage(u, PrivateChat, NoCaption)
    \/ /\ last_call.op = "check_access" /\ last_call.user = u
       /\ Len(scored) < MaxCatalogued
       /\ CheckSpam(u, MsgPlain)
    \/ LogInteraction(u)
    \/ /\ last_call.op = "save_data" /\ last_call.user = u /\ ret = None
       /\ IsRateLimited(u, "api")
    \/ /\ last_call.op = "is_rate_limited" /\ last_call.user = u
       /\ AddRequest(u, "api")

NextBurst ==
    IF InHandleText
    THEN \E u \in Users : BurstStep(u)
    ELSE \/ /\ Len(bot_data.chat_history) < MaxBurst
            /\ CheckAccess(Rina, PrivateChat)
         \/ \E sender \in {Owner, Rina}, u \in Users : ResetUserLimitsCmd(sender, u)
         \/ \E t \in BurstReadings : Tick(t)
         \/ \E u \in DOMAIN cooldown_users : TickToExpiry(u)

SpecBurst == InitDefaults /\ [][NextBurst]_vars

\* ---- the traffic of the two handlers with the configured caps: the owner
\* and another user in private chats, texts and photos
TrafficReadings == {TickStep, Minute, Hour}

TrafficStep(u) ==
    \/ HandleImage(u, PrivateChat, NoCaption)
    \/ /\ last_call.op = "check_access" /\ last_call.user = u
       /\ Len(scored) < MaxScored
       /\ CheckSpam(u, MsgPlain)
    \/ LogInteraction(u)
    \/ /\ last_call.op = "save_data" /\ last_call.user = u /\ ret = None
       /\ IsRateLimited(u, "api")
    \/ /\ last_call.op = "is_rate_limited" /\ last_call.user = u
       /\ AddRequest(u, "api")

NextTraffic ==
    IF InHandleText
    THEN \E u \in GateIds : TrafficStep(u)
    ELSE \/ \E user \in {Rina, Owner} :
                /\ Len(bot_data.chat_history) < MaxScored
                /\ CheckAccess(user, PrivateChat)
         \/ \E t \in TrafficReadings : Tick(t)

SpecTraffic == InitGateSpec /\ [][NextTraffic]_vars

\* ---- steady traffic with the default caps: one user in a private chat who
\* sends a burst of photos and texts at process start and then one photo at
\* every clock reading, the readings SteadyPace seconds apart; during a
\* cooldown the clock goes to its expiry
Attempted == last_call.op \notin {"init", "tick"}

SteadyStepOf(u) ==
    \/ HandleImage(u, PrivateChat, NoCaption)
    \/ /\ last_call.op = "check_access" /\ last_call.user = u
       /\ now = 0 /\ Len(scored) < MaxCatalogued
       /\ CheckSpam(u, MsgPlain)
    \/ LogInteraction(u)
    \/ /\ last_call.op = "save_data" /\ last_call.user = u /\ ret = None
       /\ IsRateLimited(u, "api")
    \/ /\ last_call.op = "is_rate_limited" /\ last_call.user = u
       /\ AddRequest(u, "api")

NextSteady ==
    IF InHandleText
    THEN \E u \in Users : SteadyStepOf(u)
    ELSE \/ /\ Len(bot_data.chat_history) < MaxSteady
            /\ \/ ~Attempted
               \/ now = 0 /\ Len(user_requests[1]) < MaxBurst
            /\ CheckAccess(Rina, PrivateChat)
         \/ /\ Attempted /\ ~InCooldown(1)
            /\ Len(bot_data.chat_history) < MaxSteady
            /\ Tick(now + SteadyPace)
         \/ \E u \in DOMAIN cooldown_users : Attempted /\ InCooldown(u) /\ TickToExpiry(u)

SpecSteady == InitDefaults /\ [][NextSteady]_vars

\* ---- handle_text up to the verdict and after it, in the group and in a
\* private chat.  The texts written in the group start with the trigger
\* word and those written in private do not, so the text that was scored
\* tells the chat of the update.
TextsOf(chat) ==
    IF chat = GroupChat THEN {MsgAlya, MsgAlyaAll} ELSE {MsgPlain, MsgAll}
Scored(chat) == last_call.type \in {m.text : m \in TextsOf(chat)}

InVerdictText == InGroupText \/ InHandleText

VerdictStep(u) ==
    \/ \E chat \in Chats : \E m \in TextsOf(chat) :
           /\ Len(scored) < MaxLogged
           /\ HandleTextInput(u, chat, m)
    \/ \E chat \in Chats, ok \in {AllSucceed, BanFails} :
           /\ Scored(chat)
           /\ ModerateSpam(u, chat, ok)
    \/ /\ Scored(GroupChat)
       /\ LogInteractionIn(u, GroupChat, WithoutTrigger(last_call.type))
    \/ /\ Scored(PrivateChat)
       /\ LogInteractionIn(u, PrivateChat, last_call.type)
    \/ /\ last_call.op = "save_data" /\ last_call.user = u /\ ret = None
       /\ IsRateLimited(u, "api")
    \/ /\ last_call.op = "is_rate_limited" /\ last_call.user = u
       /\ AddRequest(u, "api")

NextVerdict ==
    IF InVerdictText
    THEN \E u \in Users : VerdictStep(u)
    ELSE \/ \E chat \in Chats :
                /\ Len(scored) < MaxLogged
                /\ CheckAccess(Rina, chat)
         \/ \E sender \in {Owner, Rina}, state \in BOOLEAN :
                ToggleGroupState(sender, GroupChat, state)
         \/ \E t \in TextReadings : Tick(t)

SpecVerdict == InitGateSpec /\ [][NextVerdict]_vars

\* ---- the owner's own traffic: photos in both chats, /start under the
\* owner's name and under a name the verification rejects, /ban with the
\* owner's id, with the default caps
OwnerRenamed == User(OWNER_ID, <<"B", "o", "t">>, <<"F", "R", "E", "E">>)
OwnerIdentities == {Owner, OwnerRenamed}

NextOwner ==
    IF last_call.op = "check_access" /\ ret
    THEN \E chat \in Chats : HandleImage(last_call.user, chat, NoCaption)
    ELSE \/ \E user \in OwnerIdentities, chat \in Chats :
                /\ Len(bot_data.chat_history) < MaxBurst
                /\ CheckAccess(user, chat)
         \/ \E sender \in {Owner, Rina}, duration \in BanDays :
                BanUserCmd(sender, OWNER_ID, duration)
         \/ \E user \in OwnerIdentities : Start(user)
         \/ \E t \in BurstReadings : Tick(t)

SpecOwner == InitDefaults /\ [][NextOwner]_vars

\* ---- an approved user: /akses, /hapus_akses and /ban by the admin, photos
\* and /start by the user under either name
NextApproved ==
    IF last_call.op = "check_access" /\ ret
    THEN \E chat \in Chats : HandleImage(last_call.user, chat, NoCaption)
    ELSE \/ \E user \in {Rina, Renamed}, chat \in Chats :
                /\ Len(bot_data.chat_history) < MaxLogged
                /\ CheckAccess(user, chat)
         \/ \E user \in {Rina, Renamed} : Start(user)
         \/ \E sender \in {Owner, Rina}, u \in Targets :
                \/ GrantAccess(sender, u)
                \/ RevokeAccess(sender, u)
                \/ \E duration \in BanDays : BanUserCmd(sender, u, duration)
         \/ \E t \in TextReadings : Tick(t)

SpecApproved == InitGateSpec /\ [][NextApproved]_vars

\* ---- handle_text with texts at and over the length limit.  "alya b..." is
\* the trigger word and letters b, 4000 characters in all, "alya c..." has one
\* letter more; "d..." and "e..." are 4000 and 4001 letters.
MsgAtLimit == Msg("alya b...", MAX_INPUT_LENGTH, 0, {"alya", "b..."}, <<>>, FALSE)
MsgOverLimit == Msg("alya c...", MAX_INPUT_LENGTH + 1, 0, {"alya", "c..."}, <<>>, FALSE)
MsgLine == Msg("d...", MAX_INPUT_LENGTH, 0, {"d..."}, <<>>, FALSE)
MsgOverLine == Msg("e...", MAX_INPUT_LENGTH + 1, 0, {"e..."}, <<>>, FALSE)

LengthTextsOf(chat) ==
    IF chat = GroupChat THEN {MsgAlyaAll, MsgAtLimit, MsgOverLimit, MsgFlood}
    ELSE {MsgLine, MsgOverLine, MsgLong}
LengthTexts == LengthTextsOf(GroupChat) \cup LengthTextsOf(PrivateChat)
ScoredIn(chat) == last_call.type \in {m.text : m \in LengthTextsOf(chat)}

LengthStep(u) ==
    \/ \E chat \in Chats : \E m \in LengthTextsOf(chat) :
           /\ Len(scored) < MaxCatalogued
           /\ HandleTextInput(u, chat, m)
    \/ \E chat \in Chats :
           /\ ScoredIn(chat)
           /\ ModerateSpam(u, chat, AllSucceed)
    \/ /\ ScoredIn(GroupChat)
       /\ LogInteractionIn(u, GroupChat, WithoutTrigger(last_call.type))
    \/ /\ ScoredIn(PrivateChat)
       /\ LogInteractionIn(u, PrivateChat, last_call.type)
    \/ /\ last_call.op = "save_data" /\ last_call.user = u /\ ret = None
       /\ IsRateLimited(u, "api")
    \/ /\ last_call.op = "is_rate_limited" /\ last_call.user = u
       /\ AddRequest(u, "api")

NextLength ==
    IF InVerdictText
    THEN \E u \in Users : LengthStep(u)
    ELSE \/ \E chat \in Chats :
                /\ Len(scored) < MaxCatalogued
                /\ CheckAccess(Rina, chat)
         \/ \E sender \in {Owner, Rina}, state \in BOOLEAN :
                ToggleGroupState(sender, GroupChat, state)
         \/ \E t \in TextReadings : Tick(t)

SpecLength == InitGateSpec /\ [][NextLength]_vars

\* ---- handlers whose save_data can fail
NextSave ==
    IF InHandleText
    THEN \/ HandleTextStep(1)
         \/ \E file \in FailedWrites : LogInteractionRaises(1, file)
    ELSE \/ /\ Len(bot_data.chat_history) < MaxLogged
            /\ CheckAccess(Rina, PrivateChat)
         \/ GrantAccess(Owner, 1)
         \/ CleanupTask
         \/ \E file \in FailedWrites :
                \/ GrantAccessRaises(Owner, 1, file)
                \/ CleanupTaskRaises(file)
         \/ \E id \in {"100000"} : Restart(id)
         \/ \E t \in {Minute, Hour} : Tick(t)

SpecSave == InitGateSpec /\ [][NextSave]_vars

\* ---- load_data on the files a start can find
SavedData ==
    [session_id |-> "999999", owner_id |-> OWNER_ID, approved_users |-> {1},
     banned_users |-> [u \in {6} |-> DatetimeMax],
     group_states |-> [c \in {GroupChat.id} |-> TRUE],
     chat_history |-> <<Interaction(1, PrivateChat, 0, "halo", 0)>>,
     user_stats |-> [u \in {1} |-> StatsOf(u, Minute)],
     spam_violations |-> [u \in {6} |-> <<0, Minute>>],
     suspicious_users |-> {}, session_start_time |-> 0, last_backup_time |-> Hour]
SavedFile == ToDict(SavedData)
TopKeys == DOMAIN SavedFile
StatsKeys == DOMAIN SavedFile.user_stats[Str(1)]
\* The file with the keys S of its one user_stats entry missing
StatsWithout(S) == [SavedFile EXCEPT !.user_stats = [k \in DOMAIN @ |-> Drop(@[k], S)]]
\* The file with a ban date that is not a date
BadBan == [SavedFile EXCEPT !.banned_users = [k \in DOMAIN @ |-> <<"text", "soon">>]]
\* The sets of keys a file lacks: up to MaxMissing keys, or all of them
MissingFrom(keys) == {S \in SUBSET keys : Cardinality(S) <= MaxMissing \/ S = keys}
Files ==
    {Drop(SavedFile, S) : S \in MissingFrom(TopKeys)}
    \cup {StatsWithout(S) : S \in MissingFrom(StatsKeys)}
    \cup {Garbage, BadBan}

InitLoad ==
    /\ InitRL /\ InitSpam /\ InitMod /\ InitGate
    /\ bot_data = [session_id |-> "100000", owner_id |-> OWNER_ID,
                   group_states |-> <<>>, chat_history |-> <<>>,
                   suspicious_users |-> {}, session_start_time |-> 0,
                   last_backup_time |-> NoTime]
    /\ disk \in {<<>>} \cup {<<f>> : f \in Files}
    /\ quarantined = <<>>

NextLoad ==
    \/ \E id \in SessionIds : Restart(id)
    \/ CleanupTask
    \/ \E t \in {Minute} : Tick(t)

SpecLoad == InitLoad /\ [][NextLoad]_vars

\* ------------------------------------------------------------ properties
\* Entries of a window newer than lo, counted one by one.
CountNewer(xs, lo) == Cardinality({i \in DOMAIN xs : xs[i] > lo})

\* The step logs a cooldown line for u: is_rate_limited detected a breach.
Breach(u) == cooldown_log'[u].breaches = cooldown_log[u].breaches + 1

\* The step is the call is_rate_limited(u, t).
IsCheck(u, t) == last_call' = Call("is_rate_limited", u, t)

\* u's cooldown-until lies in the future.
Active(u) == u \in DOMAIN cooldown_users /\ cooldown_users[u] > now

\* The cooldown that the n-th breach since the last reset sets lasts m minutes.
NthBreachSets(u, n, m) ==
    (Breach(u) /\ cooldown_log'[u].breaches = n)
        => (u \in DOMAIN cooldown_users' /\ cooldown_users'[u] = now' + m * Minute)

\* C1 as stated: with no reset in between, the first breach sets a 5-minute
\* cooldown, the fourth a 20-minute cooldown and the tenth a 60-minute cooldown.
C1_AsStated ==
    [][\A u \in Users : /\ NthBreachSets(u, 1, 5)
                        /\ NthBreachSets(u, 4, 20)
                        /\ NthBreachSets(u, 10, 60)]_vars

\* C1 amended: with no reset in between, the first breach sets a 5-minute
\* cooldown, the fourth a 20-minute cooldown, the tenth a 50-minute cooldown, and
\* every breach from the twelfth on a 60-minute cooldown (the cap).
C1_ProgressiveCooldown ==
    [][\A u \in Users : /\ NthBreachSets(u, 1, 5)
                        /\ NthBreachSets(u, 4, 20)
                        /\ NthBreachSets(u, 10, 50)
                        /\ \A n \in 12..20 : NthBreachSets(u, n, 60)]_vars

\* The tenth breach in a row has just set a 50-minute cooldown.
C1_Witness ==
    /\ last_call.op = "is_rate_limited"
    /\ cooldown_log[1].breaches = 10
    /\ 1 \in DOMAIN cooldown_users
    /\ cooldown_users[1] = now + 50 * Minute

\* C2: a breach raises the user's violation counter by exactly 1 and sets
\* cooldown-until to now + min(counter * 5, 60) minutes; no cooldown reaches
\* further than 60 minutes ahead; and, with no reset in between, the cooldown of
\* a breach is at least as long as that of the breach before it.
C2_BreachCooldown ==
    [][/\ \A u \in Users : Breach(u) =>
              /\ warning_counts'[u] = warning_counts[u] + 1
              /\ u \in DOMAIN cooldown_users'
              /\ cooldown_users'[u] =
                     now' + (IF warning_counts'[u] * 5 <= 60
                             THEN warning_counts'[u] * 5 ELSE 60) * Minute
              /\ cooldown_log'[u].minutes * Minute = cooldown_users'[u] - now'
              /\ cooldown_log'[u].minutes >= cooldown_log[u].minutes
       /\ \A u \in DOMAIN cooldown_users' : cooldown_users'[u] - now' <= 60 * Minute]_vars

\* The thirteenth breach in a row: the counter reads 13 and the cooldown is the
\* 60-minute cap, as was the one before.
C2_Witness ==
    /\ last_call.op = "is_rate_limited"
    /\ warning_counts[1] = 13
    /\ cooldown_log[1].breaches = 13
    /\ 1 \in DOMAIN cooldown_users
    /\ cooldown_users[1] = now + 60 * Minute

\* C3: while the user's cooldown-until is in the future, is_rate_limited
\* returns True for either request class, whatever the windows hold, and the
\* call changes neither the violation counter, nor cooldown-until, nor the
\* two request windows.
C3_CooldownOverrides ==
    [][\A u \in Users, t \in RequestTypes : (IsCheck(u, t) /\ Active(u)) =>
           /\ ret' = TRUE
           /\ UNCHANGED <<warning_counts, cooldown_users, user_requests, api_requests>>]_vars

\* A "message" check answered True during a cooldown that an api breach set
\* earlier, with the message window empty and stale api entries left in place.
C3_Witness ==
    /\ last_call = Call("is_rate_limited", 1, "message")
    /\ ret = TRUE
    /\ Active(1)
    /\ cooldown_users[1] < now + cooldown_log[1].minutes * Minute
    /\ user_requests[1] = <<>>
    /\ CountNewer(api_requests[1], now - Minute) = 0
    /\ Len(api_requests[1]) = MAX_API_CALLS_PER_MINUTE

C5_WindowVerdict ==
    [][\A u \in Users :
        /\ (IsCheck(u, "message") /\ ~Active(u)) =>
              ret' = (\/ CountNewer(user_requests[u], now - Minute) >= MAX_MESSAGES_PER_MINUTE
                      \/ CountNewer(user_requests[u], now - Hour) >= MAX_MESSAGES_PER_HOUR)
        /\ (IsCheck(u, "api") /\ ~Active(u)) =>
              ret' = (CountNewer(api_requests[u], now - Minute) >= MAX_API_CALLS_PER_MINUTE)
        /\ ((\E t \in RequestTypes : IsCheck(u, t)) /\ ~Active(u)) =>
              /\ \A i \in DOMAIN user_requests'[u] : user_requests'[u][i] > now - Hour
              /\ \A i \in DOMAIN api_requests'[u] : api_requests'[u][i] > now - Minute]_vars

\* The hourly cap alone answered True, more than an hour after the start: the
\* trailing minute holds fewer than MAX_MESSAGES_PER_MINUTE requests and the
\* trailing hour MAX_MESSAGES_PER_HOUR, the oldest of them from the first hour.
C5_Witness ==
    /\ last_call = Call("is_rate_limited", 1, "message")
    /\ ret = TRUE
    /\ 1 \in DOMAIN cooldown_users
    /\ cooldown_users[1] = now + cooldown_log[1].minutes * Minute
    /\ CountNewer(user_requests[1], now - Minute) < MAX_MESSAGES_PER_MINUTE
    /\ Len(user_requests[1]) = MAX_MESSAGES_PER_HOUR
    /\ now > Hour
    /\ user_requests[1][1] < Hour

\* The step is check_spam scoring the text message m of sender u.
IsScoring(u, m) == m # NoText /\ last_call' = Call("check_spam", u, m.text)

\* The messages scored before this one that u sent with the same text within
\* the last hour, and the messages u sent within the last 30 seconds.
PriorSends(u, text) ==
    Cardinality({i \in DOMAIN scored :
        scored[i].user = u /\ scored[i].text = text /\ scored[i].at > now - Hour})
RecentSends(u) ==
    Cardinality({i \in DOMAIN scored : scored[i].user = u /\ scored[i].at > now - 30})

\* The duplicate penalty of the k-th identical message.
Penalty(k) == IF k - MAX_IDENTICAL_MESSAGES > 0 THEN k - MAX_IDENTICAL_MESSAGES ELSE 0

\* The weights of the table of signals, but for the duplicate penalty.
OtherWeights(u, m) ==
      (IF m.len > MAX_MESSAGE_LENGTH THEN 2 ELSE 0)
    + 2 * Len(m.patterns)
    + (IF m.words \cap PROFANITY_WORDS # {} THEN 1 ELSE 0)
    + (IF m.len >= 10 /\ m.upper * 10 > 7 * m.len THEN 1 ELSE 0)
    + (IF m.short_link THEN 3 ELSE 0)
    + (IF RecentSends(u) + 1 >= 5 THEN 2 ELSE 0)
    + (IF u > NEW_ACCOUNT_ID THEN 1 ELSE 0)

Tagged(r, tag) == \E i \in DOMAIN r.reason : r.reason[i] = tag

\* C6: when a user sends the same text for the k-th time within one hour,
\* the scoring call adds max(0, k - MAX_IDENTICAL_MESSAGES) to the score, and
\* tags the message duplicate_message iff that is positive; with the limit 3
\* the first five sends add 0, 0, 0, 1, 2.
C6_DuplicatePenalty ==
    [][\A u \in Senders, m \in Catalogue : IsScoring(u, m) =>
          LET k == PriorSends(u, m.text) + 1
          IN  /\ ret'.score = OtherWeights(u, m) + Penalty(k)
              /\ Tagged(ret', "duplicate_message") <=> k > MAX_IDENTICAL_MESSAGES
              /\ k \in 1..5 => ret'.score - OtherWeights(u, m) = <<0, 0, 0, 1, 2>>[k]]_vars

\* The fifth "hello there" of the old account within the hour, not in a burst:
\* the penalty 2 is the whole score.
C6_Witness ==
    /\ last_call = Call("check_spam", 1, "hello there")
    /\ Cardinality({i \in DOMAIN scored :
           scored[i].user = 1 /\ scored[i].text = "hello there"}) = 5
    /\ ret = [is_spam |-> FALSE, reason |-> <<"duplicate_message">>, score |-> 2]

\* C7: the score that check_spam returns is the sum of the weights of the
\* signals that fired (length 2, 2 per matching pattern, profanity 1, caps 1,
\* the duplicate penalty, suspicious link 3, rapid messaging 2, new account 1),
\* a signal is tagged in the reason iff it fired, and is_spam is true iff the
\* score is at least SPAM_SCORE_THRESHOLD.
C7_ScoreIsSum ==
    [][\A u \in Senders, m \in Catalogue : IsScoring(u, m) =>
          LET dup == Penalty(PriorSends(u, m.text) + 1)
              sum == OtherWeights(u, m) + dup
          IN  /\ ret'.score = sum
              /\ ret'.is_spam <=> sum >= SPAM_SCORE_THRESHOLD
              /\ sum < SPAM_SCORE_THRESHOLD => ~ret'.is_spam
              /\ Tagged(ret', "message_too_long") <=> m.len > MAX_MESSAGE_LENGTH
              /\ \A i \in 0..4 : Tagged(ret', PatternTags[i + 1])
                                   <=> \E j \in DOMAIN m.patterns : m.patterns[j] = i
              /\ Tagged(ret', "profanity") <=> m.words \cap PROFANITY_WORDS # {}
              /\ Tagged(ret', "excessive_caps")
                   <=> (m.len >= 10 /\ m.upper * 10 > 7 * m.len)
              /\ Tagged(ret', "duplicate_message") <=> dup > 0
              /\ Tagged(ret', "suspicious_links") <=> m.short_link
              /\ Tagged(ret', "rapid_messaging") <=> RecentSends(u) + 1 >= 5
              /\ Tagged(ret', "new_account") <=> u > NEW_ACCOUNT_ID]_vars

\* The new account's fifth "FREE MONEY CASINO URGENT" in a burst: three
\* patterns, caps, the duplicate penalty 2, rapid messaging and the new account
\* add up to 12.
C7_Witness ==
    /\ last_call = Call("check_spam", 6, "FREE MONEY CASINO URGENT")
    /\ Len(scored) = 5
    /\ ret.is_spam
    /\ ret.score = 12
    /\ ret.reason = <<"spam_pattern_0", "spam_pattern_1", "spam_pattern_4",
                      "excessive_caps", "duplicate_message", "rapid_messaging",
                      "new_account">>

Score(u) == IF u \in DOMAIN user_stats THEN user_stats[u].spam_score ELSE 0

\* C8: every call that scores a text message appends the message to its
\* bucket of the duplicate index and to the sender's cadence list, whatever
\* the verdict; a spam verdict appends exactly one entry to the sender's
\* violation log and raises the sender's cumulative spam_score by exactly 1,
\* whatever the score of the message; any other verdict leaves the log
\* and spam_score as they were.
C8_ScoringEffects ==
    [][\A u \in Senders, m \in Catalogue : IsScoring(u, m) =>
          LET bucket == message_hashes'[Md5(m.text)]
              cadence == user_message_intervals'[u]
              old_log == Lookup(spam_violations, u)
              new_log == Lookup(spam_violations', u)
              old_score == Score(u)
          IN  /\ bucket[Len(bucket)] = <<u, now>>
              /\ Len(bucket) = 1 + CountNewer([i \in DOMAIN Lookup(message_hashes, Md5(m.text))
                                                 |-> Lookup(message_hashes, Md5(m.text))[i][2]],
                                              now - Hour)
              /\ cadence[Len(cadence)] = now
              /\ Len(cadence) = IF Len(Lookup(user_message_intervals, u)) < 10
                                THEN Len(Lookup(user_message_intervals, u)) + 1 ELSE 10
              /\ ret'.is_spam =>
                    /\ Len(new_log) = CountNewer(old_log, now - Day) + 1
                    /\ new_log[Len(new_log)] = now
                    /\ user_stats'[u].spam_score = old_score + 1
              /\ ~ret'.is_spam =>
                    /\ spam_violations' = spam_violations
                    /\ user_stats'[u].spam_score = old_score]_vars

\* The second spam verdict against the new account, on a message of score 6:
\* two log entries and a cumulative spam_score of 2.
C8_Witness ==
    /\ last_call = Call("check_spam", 6, "see https://goo.gl/x")
    /\ ret.is_spam
    /\ ret.score = 6
    /\ user_stats[6].spam_score = 2
    /\ Len(spam_violations[6]) = 2
    /\ Len(message_hashes[Md5("see https://goo.gl/x")]) = 5

\* ---- moderation
\* This step is handle_spam_violation for a message of u in chat with score s.
IsViolation(chat, u, s) ==
    /\ last_call' = Call("handle_spam_violation", u, chat.type)
    /\ moderated' = [chat |-> chat.id, user |-> u, score |-> s]

\* The handler of this step made a request at the call site.
Requested(site) == \E i \in DOMAIN transport' : transport'[i].call = site

\* The handler of this step asked Telegram to restrict the member for the
\* given minutes, and the request succeeded.
Restricted(minutes) ==
    \E i \in DOMAIN transport' :
        /\ transport'[i].call = "restrict_chat_member"
        /\ transport'[i].minutes = minutes
        /\ transport'[i].ok

\* The warning counter of key after one more warning.
OneMoreWarning(key) ==
    [k \in DOMAIN mod_warning_counts \cup {key} |->
        IF k = key THEN (IF key \in DOMAIN mod_warning_counts
                         THEN mod_warning_counts[key] + 1 ELSE 1)
        ELSE mod_warning_counts[k]]

\* C9: in a group chat handle_spam_violation with score s takes exactly one of
\* the four branches.  s >= B: the ban is requested, nothing is restricted or
\* warned, no mute entry is created and the warning counters are unchanged.
\* T+2 <= s < B: the member is restricted for 30 minutes (the entry written
\* with a successful restriction is now + 30 minutes), no ban and no warning.
\* T <= s < T+2: the warning counter of (chat, user) goes up by one and the
\* warning is sent, no ban and no 30-minute restriction.  s < T: no ban, no
\* restriction, no warning, and both tables are unchanged.
C9_ActionSelection ==
    [][\A u \in Members, s \in Scores :
         IsViolation(GroupChat, u, s) =>
           LET key == <<GroupChat.id, u>>
               T == SPAM_SCORE_THRESHOLD
               B == AUTO_BAN_SPAM_SCORE
           IN  /\ s >= B =>
                     /\ Requested("ban_chat_member")
                     /\ ~Requested("restrict_chat_member")
                     /\ ~Requested("warning_msg")
                     /\ muted_users' = muted_users
                     /\ mod_warning_counts' = mod_warning_counts
               /\ (T + 2 <= s /\ s < B) =>
                     /\ ~Requested("ban_chat_member")
                     /\ ~Requested("warning_msg")
                     /\ \E i \in DOMAIN transport' :
                            /\ transport'[i].call = "restrict_chat_member"
                            /\ transport'[i].minutes = 30
                     /\ \A i \in DOMAIN transport' :
                            transport'[i].call = "restrict_chat_member"
                                => transport'[i].minutes = 30
                     /\ Restricted(30) =>
                            /\ key \in DOMAIN muted_users'
                            /\ muted_users'[key] = now + 30 * Minute
                     /\ \A k \in DOMAIN muted_users' \ {key} :
                            k \in DOMAIN muted_users /\ muted_users'[k] = muted_users[k]
                     /\ mod_warning_counts' = mod_warning_counts
               /\ (T <= s /\ s < T + 2) =>
                     /\ ~Requested("ban_chat_member")
                     /\ Requested("warning_msg")
                     /\ \A i \in DOMAIN transport' :
                            transport'[i].call = "restrict_chat_member"
                                => transport'[i].minutes # 30
                     /\ mod_warning_counts' = OneMoreWarning(key)
               /\ s < T =>
                     /\ ~Requested("ban_chat_member")
                     /\ ~Requested("restrict_chat_member")
                     /\ ~Requested("warning_msg")
                     /\ muted_users' = muted_users
                     /\ mod_warning_counts' = mod_warning_counts]_vars

\* A twice-warned, unmuted sender was banned for a score that also meets the
\* mute condition: the ban went through, there is no mute entry and the
\* counter still reads 2.
C9_Witness ==
    /\ last_call = Call("handle_spam_violation", 1, GroupChat.type)
    /\ moderated.chat = GroupChat.id
    /\ moderated.score >= AUTO_BAN_SPAM_SCORE
    /\ moderated.score >= SPAM_SCORE_THRESHOLD + 2
    /\ \E i \in DOMAIN transport : transport[i].call = "ban_chat_member" /\ transport[i].ok
    /\ <<GroupChat.id, 1>> \notin DOMAIN muted_users
    /\ <<GroupChat.id, 1>> \in DOMAIN mod_warning_counts
    /\ mod_warning_counts[<<GroupChat.id, 1>>] = 2

\* C10: the third warn-level violation of a (chat, user) since the counter was
\* last cleared leaves a mute entry of now + 60 minutes for that key, and the
\* counter reads 3.
C10_ThirdWarningMutes ==
    [][\A u \in Members, s \in Scores :
         (/\ IsViolation(GroupChat, u, s)
          /\ SPAM_SCORE_THRESHOLD <= s /\ s < SPAM_SCORE_THRESHOLD + 2
          /\ <<GroupChat.id, u>> \in DOMAIN mod_warning_counts
          /\ mod_warning_counts[<<GroupChat.id, u>>] = 2)
         => /\ <<GroupChat.id, u>> \in DOMAIN muted_users'
            /\ muted_users'[<<GroupChat.id, u>>] = now + 60 * Minute
            /\ mod_warning_counts'[<<GroupChat.id, u>>] = 3]_vars

\* C11: when the restrict_chat_member request of a mute fails, the mute entry
\* of the (chat, user) is recorded all the same: after the handler the entry
\* reads now + the minutes of the requested restriction.
C11_EntryRecordedOnFailure ==
    [][\A u \in Members, s \in Scores :
         IsViolation(GroupChat, u, s) =>
           \A i \in DOMAIN transport' :
               (transport'[i].call = "restrict_chat_member" /\ ~transport'[i].ok)
               => /\ <<GroupChat.id, u>> \in DOMAIN muted_users'
                  /\ muted_users'[<<GroupChat.id, u>>] =
                         now + transport'[i].minutes * Minute]_vars

\* C12: in a group chat every handle_spam_violation that warns, mutes or bans
\* (score >= T) ends with exactly one deletion request, made after the requests
\* of the action; and when that deletion fails, the warning counter still
\* carries the increment of the warning and the mute entry still carries the
\* expiry written with the successful restriction.
C12_DeletionIndependent ==
    [][\A u \in Members, s \in Scores :
         (IsViolation(GroupChat, u, s) /\ s >= SPAM_SCORE_THRESHOLD) =>
           LET key == <<GroupChat.id, u>>
               n == Len(transport')
           IN  /\ n >= 2
               /\ transport'[n].call = "delete"
               /\ \A i \in 1..(n - 1) : transport'[i].call # "delete"
               /\ ~transport'[n].ok =>
                     /\ s < SPAM_SCORE_THRESHOLD + 2 =>
                            mod_warning_counts' = OneMoreWarning(key)
                     /\ s >= SPAM_SCORE_THRESHOLD + 2 =>
                            mod_warning_counts' = mod_warning_counts
                     /\ \A i \in 1..(n - 1) :
                            (transport'[i].call = "restrict_chat_member" /\ transport'[i].ok)
                            => /\ key \in DOMAIN muted_users'
                               /\ muted_users'[key] = now + transport'[i].minutes * Minute]_vars

\* A third warning muted the member for 60 minutes and the deletion of the
\* message then failed: the counter reads 3 and the entry is in place.
C12_Witness ==
    /\ last_call = Call("handle_spam_violation", 1, GroupChat.type)
    /\ moderated.chat = GroupChat.id
    /\ moderated.score = SPAM_SCORE_THRESHOLD
    /\ Len(transport) = 4
    /\ transport[2].call = "restrict_chat_member" /\ transport[2].ok
    /\ transport[4].call = "delete" /\ ~transport[4].ok
    /\ <<GroupChat.id, 1>> \in DOMAIN mod_warning_counts
    /\ mod_warning_counts[<<GroupChat.id, 1>>] = 3
    /\ <<GroupChat.id, 1>> \in DOMAIN muted_users
    /\ muted_users[<<GroupChat.id, 1>>] = now + 60 * Minute

\* ---- the sweep
\* This step is the sweep resuming from the request for key.
IsSweepOf(key) == last_call' = Call("cleanup_expired_restrictions", key[2], None)

\* key has an entry whose expiry has passed.
Expired(key) == key \in DOMAIN muted_users /\ muted_users[key] <= now

\* C13: a sweep that starts takes up every entry whose expiry has passed and
\* removes nothing yet; it removes the entry of a key only when the request
\* that restores the permissions has succeeded, and leaves the table as it is
\* when the request failed (the entry is found again by the next sweep);
\* is_user_muted returns true iff the key has an entry whose expiry lies in the
\* future, removes an expired entry and leaves any other; and with the sweep
\* run again and again and the transport succeeding eventually, every expired
\* entry is eventually gone.
C13_MuteExpiry ==
    /\ [][/\ last_call' = Call("cleanup_expired_restrictions", NoUser, None) =>
                /\ sweep'.expired_mutes =
                       {key \in DOMAIN muted_users : muted_users[key] <= now}
                /\ muted_users' = muted_users
          /\ \A key \in MuteKeys :
                /\ IsSweepOf(key) =>
                      /\ transport'[1].call = "restrict_chat_member"
                      /\ transport'[1].ok /\ key \in DOMAIN muted_users =>
                             muted_users' = [k \in DOMAIN muted_users \ {key} |-> muted_users[k]]
                      /\ ~transport'[1].ok => muted_users' = muted_users
                /\ last_call' = Call("is_user_muted", key[2], GroupChat.type) =>
                      /\ ret' = "True" <=>
                             (key \in DOMAIN muted_users /\ muted_users[key] > now)
                      /\ ret' \in {"True", "False"}
                      /\ Expired(key) =>
                             muted_users' = [k \in DOMAIN muted_users \ {key} |-> muted_users[k]]
                      /\ ~Expired(key) => muted_users' = muted_users]_vars
    /\ \A key \in MuteKeys : Expired(key) ~> ~Expired(key)

\* The sweep has just removed the expired entry of member 1 after its request
\* succeeded, some time after it listed the entry, while member 6 is still
\* muted.
C13_Witness ==
    /\ last_call = Call("cleanup_expired_restrictions", 1, None)
    /\ ret = "Auto-unmuted"
    /\ transport[1].ok
    /\ <<GroupChat.id, 1>> \notin DOMAIN muted_users
    /\ <<GroupChat.id, 6>> \in DOMAIN muted_users
    /\ muted_users[<<GroupChat.id, 6>>] > now
    /\ now > sweep.now

\* C14: whatever the admin's /mute and /unmute do while the sweep is suspended
\* in a request, the sweep removes only an entry whose expiry has passed (so
\* never an entry written after it listed the expired keys), and it goes on
\* with the keys left when the entry it was about to delete is gone.
C14_SweepSafeUnderInterleaving ==
    [][\A key \in MuteKeys :
         IsSweepOf(key) =>
           /\ (key \in DOMAIN muted_users /\ key \notin DOMAIN muted_users')
                 => muted_users[key] <= now
           /\ key \notin DOMAIN muted_users =>
                 /\ muted_users' = muted_users
                 /\ sweep'.expired_mutes = sweep.expired_mutes \ {key}]_vars


\* ------------------------------------------------------------------ C20
\* C20: reading back a snapshot that was just written gives the state it was
\* written from: session id, approved users, bans, group states, chat history,
\* user statistics, spam violations, suspicious users, session start time and
\* last backup time are what they were.
C20_SnapshotRoundTrip ==
    [][(last_call'.op = "from_dict" /\ disk = <<ToDict(Data)>>) => Data' = Data]_vars

\* ------------------------------------------------------------------ C17
IsVerify == last_call'.op = "verify_user_account"
\* The weights the heuristics contribute for an identity
Weight(found, w) == IF found THEN w ELSE 0
Total(user) ==
    Weight(user.username = <<>>, 1) + Weight(user.id > HIGH_USER_ID, 2)
    + Weight(IsSuspiciousUsername(user.username), 2)
    + Weight(IsSuspiciousName(user.first_name), 1)

\* The reasons of an answer: the heuristics that fire, or "verified"
Fired(user) ==
    LET names == (IF user.username = <<>> THEN <<"no_username">> ELSE <<>>)
                 \o (IF user.id > HIGH_USER_ID THEN <<"potentially_new_account">> ELSE <<>>)
                 \o (IF IsSuspiciousUsername(user.username)
                     THEN <<"suspicious_username">> ELSE <<>>)
                 \o (IF IsSuspiciousName(user.first_name)
                     THEN <<"suspicious_name">> ELSE <<>>)
    IN  IF names = <<>> THEN <<"verified">> ELSE names

\* C17: verification sums the weights of the heuristics that fire (no username
\* 1, id above the high-water mark 2, suspicious username 2, suspicious name 1)
\* and answers verified exactly when the sum is below 3; a not-verified answer
\* adds the id to the suspicious set, a verified one leaves the set as it was;
\* the answer, verdict and reasons, is determined by the identity alone.
C17_VerifyWeights ==
    [][IsVerify =>
         /\ ret'[1] = Bool(Total(subject') < 3)
         /\ Total(subject') >= 3 =>
                suspicious_users' = suspicious_users \cup {subject'.id}
         /\ Total(subject') < 3 => suspicious_users' = suspicious_users
         /\ ret'[2] = Fired(subject')]_vars

\* Witness of C17: an identity with no username and a high id was refused and
\* added to the set, after which an identity whose only issue is a suspicious
\* username was verified and the set stayed as it was.
C17_Witness ==
    /\ last_call.op = "verify_user_account"
    /\ ret[1] = "True"
    /\ Total(subject) = 2
    /\ subject.id = 1
    /\ suspicious_users = {6}

\* ------------------------------------------------------------------ C15
IsCheckAccess == last_call'.op = "check_access"
Denied(reply) == IsCheckAccess /\ ~ret' /\ replies' = <<reply>>
NotOwner == subject'.id # OWNER_ID
ActiveBan(u) == u \in DOMAIN banned_users /\ banned_users[u] > now
\* What the rate limiter answers to the message, read off its dicts as the
\* limiter's own claims state it
WouldLimit(u) ==
    \/ u \in DOMAIN cooldown_users /\ cooldown_users[u] > now
    \/ CountNewer(user_requests[u], now - Minute) >= MAX_MESSAGES_PER_MINUTE
    \/ CountNewer(user_requests[u], now - Hour) >= MAX_MESSAGES_PER_HOUR

Permanent(u) == u \in DOMAIN banned_users /\ banned_users[u] = DatetimeMax
Timed(u) == u \in DOMAIN banned_users /\ banned_users[u] # DatetimeMax
ByAdmin(ops, u) ==
    last_call'.op \in ops /\ last_call'.user = u /\ subject'.id = OWNER_ID
Checks(u) == IsCheckAccess /\ subject'.id = u

\* C16: a user other than the owner who holds the permanent ban is denied at
\* every access check, and holds it until the owner's /unban or /akses removes
\* the entry (or /ban replaces it): neither the expiry test of the gate nor
\* clean_old_data removes it.  A user with a timed ban is denied at every
\* check while its end is later than now; the first check after that removes
\* the entry and goes on to the remaining stages.
C16_BanLifecycle ==
    [][\A u \in Targets :
         /\ Permanent(u) =>
                /\ Checks(u) => Denied("banned")
                /\ \/ Permanent(u)'
                   \/ u \notin DOMAIN banned_users'
                      /\ ByAdmin({"unban_user", "grant_access"}, u)
                   \/ Timed(u)' /\ ByAdmin({"ban_user"}, u)
         /\ (Timed(u) /\ Checks(u)) =>
                IF banned_users[u] > now
                THEN Denied("banned") /\ banned_users' = banned_users
                ELSE /\ u \notin DOMAIN banned_users'
                     /\ ~Denied("banned")
                     /\ Len(disk') = 1
                     /\ Str(u) \notin DOMAIN disk'[1].banned_users
                     /\ WouldLimit(u) <=> Denied("rate_limit")]_vars

\* Witness of C16: past the end of every timed ban, after clean_old_data ran
\* at that time (the cleanup task made its backup then), a user still holds
\* the permanent ban and is denied by the gate.
C16_Witness ==
    /\ last_call.op = "check_access"
    /\ replies = <<"banned">>
    /\ Permanent(subject.id)
    /\ now = Day + Hour
    /\ bot_data.last_backup_time = now
    /\ Len(disk) = 1
    /\ disk[1].banned_users[Str(subject.id)] = IsoFormat(DatetimeMax)

\* ------------------------------------------------------------------ C18
\* C18: an id in the suspicious set stays in it, and the gate denies its user
\* (the owner excepted), until the owner's /marksafe or /akses removes it;
\* nothing else removes it.
C18_SuspiciousUntilCleared ==
    [][\A u \in suspicious_users :
         /\ \/ u \in suspicious_users'
            \/ ByAdmin({"mark_user_safe", "grant_access"}, u)
         /\ (Checks(u) /\ NotOwner) => ~ret']_vars

\* ------------------------------------------------------------------ C19
Saved == disk = <<ToDict(Data)>>
IsRestart == last_call'.op = "load_data"

\* C19: when the state that was saved is loaded again by a restart, the users
\* the gate denies as suspicious, the bans and the approvals are what they
\* were before it.
C19_RestartKeepsEnforcement ==
    [][(IsRestart /\ Saved) =>
           /\ suspicious_users' = suspicious_users
           /\ banned_users' = banned_users
           /\ approved_users' = approved_users]_vars

\* ---- load_data
IsLoad == last_call'.op = "load_data"

\* The files json.load or from_dict cannot take
Unreadable ==
    {Garbage, BadBan}
    \cup {StatsWithout(S) : S \in {K \in MissingFrom(StatsKeys) :
                                        K \cap REQUIRED_STATS_KEYS # {}}}

\* The field of the BotData object d that from_dict fills from the key k
\* holds the default of the key.
Defaulted(d, k) ==
    CASE k = "session_id" -> d[k] \in SessionIds
      [] k = "owner_id" -> d[k] = OWNER_ID
      [] k \in {"approved_users", "suspicious_users"} -> d[k] = {}
      [] k \in {"banned_users", "group_states", "user_stats", "spam_violations",
                "chat_history"} -> d[k] = <<>>
      [] k = "session_start_time" -> d[k] = now
      [] k = "last_backup_time" -> d[k] = NoTime

\* The field of the user's record that from_dict fills from the key k holds
\* the default of the key.
DefaultedStat(r, k) ==
    CASE k \in {"message_count", "spam_score", "warnings"} -> r[k] = 0
      [] k = "verification_status" -> r[k] = "unverified"
      [] k = "last_spam_check" -> r[k] = NoTime

\* C21: a start always yields a state: with no file, or a file that cannot be
\* parsed or deserialized, the empty state, the bad file being moved to a name
\* of its own so that DATA_FILE is gone; with a readable file, each key's
\* value where the key is present and the default where it is missing, at the
\* top level and inside a user's record.
C21_LoadSubstitutesOrQuarantines ==
    [][IsLoad =>
        IF disk = <<>> \/ disk[1] \in Unreadable
        THEN /\ \A k \in TopKeys : Defaulted(Data', k)
             /\ disk' = <<>>
             /\ IF disk = <<>> THEN quarantined' = quarantined
                ELSE /\ \E name \in DOMAIN quarantined' : quarantined'[name] = disk[1]
                     /\ \A name \in DOMAIN quarantined \ {now} :
                            /\ name \in DOMAIN quarantined'
                            /\ quarantined'[name] = quarantined[name]
        ELSE /\ disk' = disk /\ quarantined' = quarantined
             /\ \A k \in TopKeys \ {"user_stats"} :
                    IF k \in DOMAIN disk[1]
                    THEN ToDict(Data')[k] = disk[1][k]
                    ELSE Defaulted(Data', k)
             /\ IF "user_stats" \notin DOMAIN disk[1] THEN Defaulted(Data', "user_stats")
                ELSE /\ DOMAIN user_stats' = {IntOf(u) : u \in DOMAIN disk[1].user_stats}
                     /\ \A u \in DOMAIN user_stats', k \in StatsKeys :
                            IF k \in DOMAIN disk[1].user_stats[Str(u)]
                            THEN ToDict(Data').user_stats[Str(u)][k]
                                     = disk[1].user_stats[Str(u)][k]
                            ELSE DefaultedStat(user_stats'[u], k)]_vars

\* A start found a file it could not read: the file is under its new name and
\* the state is empty.
C21_Witness ==
    /\ last_call.op = "load_data"
    /\ disk = <<>>
    /\ \E name \in DOMAIN quarantined : quarantined[name] = Garbage
    /\ user_stats = <<>>

\* ---- save_data fails
\* The step is an operation whose save_data failed
SaveFails ==
    /\ last_call'.op \in {"save_data", "cleanup_task", "grant_access"}
    /\ ret' \in {Raised, Logged}

\* C22: when the write of the snapshot fails, the state in memory is the one
\* the operation made and the operation runs on: handle_text goes on to the
\* "api" limit, /akses answers that access was granted, cleanup_task ends
\* without an exception leaving it.
C22_SaveFailureNonFatal ==
    [][SaveFails =>
        /\ approved_users \subseteq approved_users'
        /\ DOMAIN user_stats \subseteq DOMAIN user_stats'
        /\ Len(bot_data'.chat_history) >= Len(bot_data.chat_history)
        /\ last_call'.op = "grant_access" => /\ last_call'.user \in approved_users'
                                             /\ replies' = <<"granted">>
        /\ last_call'.op = "save_data" => InHandleText'
        /\ ret' # Raised]_vars

\* ---- clean_old_data
IsPrune == last_call'.op \in {"clean_old_data", "cleanup_task"}

\* C23: after clean_old_data the index of message fingerprints that check_spam
\* scores duplicates with holds no entry older than one hour, no ban has an end
\* before now, and the history is the last MAX_CHAT_HISTORY entries of what it
\* was, in their order.
C23_PruneBounds ==
    [][IsPrune =>
        /\ \A h \in DOMAIN message_hashes' : \A i \in DOMAIN message_hashes'[h] :
               message_hashes'[h][i][2] >= now' - Hour
        /\ \A u \in DOMAIN banned_users' : banned_users'[u] >= now'
        /\ Len(bot_data'.chat_history) <= MAX_CHAT_HISTORY
        /\ bot_data'.chat_history = LastN(bot_data.chat_history, MAX_CHAT_HISTORY)]_vars

\* The same without the index of fingerprints
PruneBansAndHistory ==
    [][IsPrune =>
        /\ \A u \in DOMAIN banned_users' : banned_users'[u] >= now'
        /\ \A u \in DOMAIN banned_users : banned_users[u] >= now => u \in DOMAIN banned_users'
        /\ Len(bot_data'.chat_history) <= MAX_CHAT_HISTORY
        /\ bot_data'.chat_history = LastN(bot_data.chat_history, MAX_CHAT_HISTORY)]_vars

\* C24: clean_old_data run again on the state it left, the clock not having
\* moved and nothing having happened, changes nothing.
C24_PruneIdempotent ==
    [][IsPrune => CleanOldData(Data') = Data']_vars

\* clean_old_data has cut the history to its last MAX_CHAT_HISTORY entries and
\* kept the one ban, which ends now.
C24_Witness ==
    /\ last_call.op = "clean_old_data"
    /\ Len(bot_data.chat_history) = MAX_CHAT_HISTORY
    /\ bot_data.chat_history[1].timestamp = IsoFormat(MaxPruned - MAX_CHAT_HISTORY + 1)
    /\ now = Hour
    /\ DOMAIN banned_users = {6}
    /\ banned_users[6] = Hour

\* ---- the user records
\* The fields of a record other than the two that get_user_stats writes
Counters(r) == <<r.user_id, r.first_seen, r.message_count, r.spam_score, r.warnings,
                 r.verification_status, r.last_spam_check>>

\* C25: get_user_stats on an absent id makes a record first and last seen now
\* with zero counters; on a present id it sets last_seen to now, takes the
\* name unless the name is "unknown", and leaves every other field; a message
\* that is found to be spam leaves the sender's name in the record; and no
\* step of a running process removes a record or changes its first_seen.
C25_GetOrCreateFrame ==
    [][/\ last_call'.op = "user_status" =>
            LET u == last_call'.user
                name == last_call'.type
            IN  /\ \A v \in DOMAIN user_stats \ {u} :
                       v \in DOMAIN user_stats' /\ user_stats'[v] = user_stats[v]
                /\ DOMAIN user_stats' = DOMAIN user_stats \cup {u}
                /\ user_stats'[u].last_seen = now
                /\ IF u \notin DOMAIN user_stats
                   THEN /\ Counters(user_stats'[u]) = <<u, now, 0, 0, 0, "unverified", NoTime>>
                        /\ user_stats'[u].username = name
                   ELSE /\ Counters(user_stats'[u]) = Counters(user_stats[u])
                        /\ user_stats'[u].username =
                               IF name = "unknown" THEN user_stats[u].username ELSE name
       /\ (last_call'.op = "check_spam" /\ ret'.is_spam) =>
              user_stats'[last_call'.user].username = UserName(last_call'.user)
       /\ last_call'.op # "load_data" =>
              \A u \in DOMAIN user_stats :
                  /\ u \in DOMAIN user_stats'
                  /\ user_stats'[u].first_seen = user_stats[u].first_seen]_vars

\* /mystatus under the name "unknown" found the record of a user seen earlier
\* under a name: the name stays, last_seen moves.
C25_Witness ==
    /\ last_call.op = "user_status" /\ last_call.type = "unknown"
    /\ last_call.user \in DOMAIN user_stats
    /\ user_stats[last_call.user].username = "alice b"
    /\ user_stats[last_call.user].first_seen < user_stats[last_call.user].last_seen

\* C26: spam_score of a record does not go down in any step of a running
\* process other than /marksafe, which makes it 0.
C26_ScoreMonotone ==
    [][last_call'.op # "load_data" =>
        \A u \in DOMAIN user_stats :
            IF last_call'.op = "mark_user_safe" /\ last_call'.user = u
               /\ subject'.id = OWNER_ID
            THEN user_stats'[u].spam_score = 0
            ELSE /\ u \in DOMAIN user_stats'
                 /\ user_stats'[u].spam_score >= user_stats[u].spam_score]_vars

\* /marksafe has put a score that was positive back to 0, after a prune and a
\* rate-limit reset had left it alone.
C26_Witness ==
    /\ last_call.op = "mark_user_safe"
    /\ 1 \in DOMAIN user_stats
    /\ user_stats[1].spam_score = 0
    /\ user_stats[1].verification_status = "verified"
    /\ Len(Lookup(spam_violations, 1)) > 0

\* ---- handle_text in a group
\* The step handles the text m that check_access admitted in the active group.
Handles(m) ==
    /\ last_call.op = "check_access"
    /\ last_call'.op \in {"validate_input", "handle_text", "check_spam"}
    /\ last_call'.type = m.text
    /\ GroupState(GroupChat)

\* The ban request for the member, among the requests of the step
BanIssued(key) ==
    \E i \in DOMAIN transport' :
        /\ transport'[i].call = "ban_chat_member"
        /\ <<transport'[i].chat, transport'[i].user>> = key

\* C27: each of the 5000-character messages with a bit.ly link that a user
\* sends to an active group is scored, the third at the latest is found to be
\* spam, and a verdict on a user whose cumulative score has reached
\* AUTO_BAN_SPAM_SCORE issues the ban request and leaves no mute entry for
\* the (chat, user).
C27_FloodEndToEnd ==
    [][/\ Handles(MsgFlood) =>
              /\ last_call'.op = "check_spam"
              /\ Len(scored') >= MAX_IDENTICAL_MESSAGES => ret'.is_spam
       /\ (/\ last_call'.op = "handle_spam_violation"
           /\ last_call'.user \in DOMAIN user_stats
           /\ user_stats[last_call'.user].spam_score >= AUTO_BAN_SPAM_SCORE) =>
              /\ BanIssued(<<GroupChat.id, last_call'.user>>)
              /\ <<GroupChat.id, last_call'.user>> \notin DOMAIN muted_users']_vars

\* ---- validate_input
InvalidTexts == {NoText.text, MsgFlood.text, MsgScript.text}

ScoredTimes(log, u) ==
    LET mine == SelectSeq(log, LAMBDA e : e.user = u)
    IN  [i \in DOMAIN mine |-> mine[i].at]

\* C29: after a scoring call the sender's list of message times is the last
\* ten of all the times at which the sender was scored, in order, the other
\* senders' lists are as they were, and "rapid_messaging" is among the reasons
\* iff five or more entries of the list, the current one included, are less
\* than 30 seconds old.
C29_CadenceWindow ==
    [][last_call'.op = "check_spam" =>
        LET u == last_call'.user
            index == user_message_intervals'[u]
        IN  /\ Len(index) <= 10
            /\ index = LastN(ScoredTimes(scored', u), 10)
            /\ index[Len(index)] = now
            /\ \A v \in DOMAIN user_message_intervals \ {u} :
                   user_message_intervals'[v] = user_message_intervals[v]
            /\ Tagged(ret', "rapid_messaging")
                   <=> Cardinality({i \in DOMAIN index : now - index[i] < 30}) >= 5]_vars

\* The eleventh message of a sender: the list holds ten times, the first is
\* gone, and fewer than five are recent although more than five were sent.
C29_Witness ==
    /\ last_call.op = "check_spam"
    /\ Len(ScoredTimes(scored, 1)) = 11
    /\ Len(user_message_intervals[1]) = 10
    /\ ~Tagged(ret, "rapid_messaging")
    /\ user_message_intervals[1][1] # scored[1].at

\* ---- the violation log
\* The violation times of the log that are less than 24 hours old
Retained(log) ==
    UNION {{<<u, i>> : i \in {k \in DOMAIN log[u] : log[u][k] > now - Day}} :
              u \in DOMAIN log}

\* C30: the reads of the violation log see no time older than 24 hours: the
\* list a scoring call that records a violation leaves, the count /adminstatus
\* reports, and the lists a save writes to the snapshot.
C30_ReadsSeeRetained ==
    [][/\ (last_call'.op = "check_spam" /\ ret'.is_spam) =>
              \A u \in DOMAIN spam_violations' : \A i \in DOMAIN spam_violations'[u] :
                  u = last_call'.user => spam_violations'[u][i] > now - Day
       /\ (last_call'.op = "admin_status" /\ subject'.id = OWNER_ID) =>
              ret'.spam_violations = Cardinality(Retained(spam_violations))
       /\ (last_call'.op = "cleanup_task" /\ Len(disk') = 1) =>
              \A u \in DOMAIN disk'[1].spam_violations :
                  \A i \in DOMAIN disk'[1].spam_violations[u] :
                      FromIsoFormat(disk'[1].spam_violations[u][i]) > now - Day]_vars

\* The same for the writer alone: add_spam_violation leaves the user's list
\* without times older than 24 hours.
ViolationWritePrunes ==
    [][(last_call'.op = "check_spam" /\ ret'.is_spam) =>
          \A i \in DOMAIN spam_violations'[last_call'.user] :
              spam_violations'[last_call'.user][i] > now - Day]_vars


\* ---- _check_duplicate_message, reset_user_spam_data
\* The entries of user u in a bucket, and those of everybody else
EntriesOf(bucket, u) == SelectSeq(bucket, LAMBDA e : e[1] = u)
EntriesOfOthers(bucket, u) == SelectSeq(bucket, LAMBDA e : e[1] # u)

\* The entries of u under the fingerprint of the text that are less than an
\* hour old
OwnRecent(u, text) ==
    SelectSeq(EntriesOf(Lookup(message_hashes, Md5(text)), u), LAMBDA e : e[2] > now - Hour)

\* The weights of the signals that read the message and the account alone
StaticWeights(u, m) ==
      (IF m.len > MAX_MESSAGE_LENGTH THEN 2 ELSE 0)
    + 2 * Len(m.patterns)
    + (IF m.words \cap PROFANITY_WORDS # {} THEN 1 ELSE 0)
    + (IF m.len >= 10 /\ m.upper * 10 > 7 * m.len THEN 1 ELSE 0)
    + (IF m.short_link THEN 3 ELSE 0)
    + (IF u > NEW_ACCOUNT_ID THEN 1 ELSE 0)

\* What is left of a returned score for the duplicate penalty
PenaltyIn(r, u, m) ==
    r.score - StaticWeights(u, m) - (IF Tagged(r, "rapid_messaging") THEN 2 ELSE 0)

\* C31: the duplicate penalty of a scoring call for user u is a function of
\* u's own entries under the text's fingerprint that are less than an hour
\* old (0 below MAX_IDENTICAL_MESSAGES of them, else their number minus the
\* limit plus 1), whatever other users have stored there; and /resetlimit u
\* by the admin leaves no entry of u in any bucket, removes u's cadence
\* history, and leaves every other user's entries and cadence history as
\* they were.
C31_DuplicatesPerUser ==
    [][/\ \A u \in Senders, m \in Catalogue : IsScoring(u, m) =>
              LET own == Len(OwnRecent(u, m.text))
              IN  /\ PenaltyIn(ret', u, m) =
                         IF own >= MAX_IDENTICAL_MESSAGES
                         THEN own - MAX_IDENTICAL_MESSAGES + 1 ELSE 0
                  /\ Tagged(ret', "duplicate_message") <=> own >= MAX_IDENTICAL_MESSAGES
       /\ (last_call'.op = "reset_user_limits" /\ subject'.id = OWNER_ID) =>
              LET u == last_call'.user
              IN  /\ \A h \in DOMAIN message_hashes' : EntriesOf(message_hashes'[h], u) = <<>>
                  /\ \A h \in DOMAIN message_hashes :
                         EntriesOfOthers(message_hashes[h], u) =
                             EntriesOfOthers(Lookup(message_hashes', h), u)
                  /\ DOMAIN message_hashes' \subseteq DOMAIN message_hashes
                  /\ u \notin DOMAIN user_message_intervals'
                  /\ \A v \in DOMAIN user_message_intervals \ {u} :
                         /\ v \in DOMAIN user_message_intervals'
                         /\ user_message_intervals'[v] = user_message_intervals[v]]_vars

\* The old account's first message of a text the new account has stored
\* MAX_IDENTICAL_MESSAGES times or more within the hour: no penalty.
C31_Witness ==
    /\ last_call = Call("check_spam", 1, "hello there")
    /\ Len(EntriesOf(Lookup(message_hashes, Md5("hello there")), 6)) >= MAX_IDENTICAL_MESSAGES
    /\ Len(EntriesOf(Lookup(message_hashes, Md5("hello there")), 1)) = 1
    /\ \A i \in DOMAIN scored : scored[i].at > now - Hour
    /\ ~Tagged(ret, "duplicate_message")


\* ---- _ban_user and the access gate
\* The step is handle_spam_violation taking the ban branch in the group
IsAutoBan ==
    /\ last_call'.op = "handle_spam_violation"
    /\ moderated'.chat = GroupChat.id
    /\ moderated'.score >= AUTO_BAN_SPAM_SCORE

\* C32: an automatic ban sends the ban request to Telegram and changes
\* neither the warning counters, nor the mute table, nor banned_users (nor
\* anything else the gate reads); and a later message of the member whose
\* removal from the chat was requested, and carried out, is admitted by
\* check_access exactly when the member is not rate limited (nothing of the
\* gate's state knows of the ban).
C32_BanKeepsNoState ==
    [][/\ IsAutoBan =>
              /\ BanIssued(<<GroupChat.id, last_call'.user>>)
              /\ UNCHANGED <<mod_warning_counts, muted_users, banned_users,
                             approved_users, suspicious_users, failed_verifications,
                             rlVars>>
       /\ (/\ IsCheckAccess /\ NotOwner
           /\ last_call'.type = GroupChat.type
           /\ RemovedFromChat(subject'.id, GroupChat)) =>
              /\ subject'.id \notin DOMAIN banned_users
              /\ subject'.id \notin suspicious_users
              /\ ret' = ~WouldLimit(subject'.id)]_vars

\* The member was removed from the group by the automatic ban, wrote again,
\* and check_access has admitted the message.
C32_Witness ==
    /\ last_call.op = "check_access" /\ last_call.user = 1
    /\ last_call.type = GroupChat.type
    /\ ret
    /\ RemovedFromChat(1, GroupChat)
    /\ moderated.score >= AUTO_BAN_SPAM_SCORE
    /\ banned_users = <<>>


\* ---- the cooldown and the request classes
\* The step is an "api" check of handle_text or handle_image that found the cap
\* reached and applied the cooldown
IsApiBreach(u) ==
    /\ Breach(u)
    /\ \/ last_call' = Call("is_rate_limited", u, "api")
       \/ last_call'.op = "handle_image" /\ last_call'.user = u

InWindow(reqs, t, length) ==
    Cardinality({i \in DOMAIN reqs : reqs[i] > t - length /\ reqs[i] <= t})

\* The recorded requests of u stay within the three caps, in every window
\* that ends at one of them
WithinCaps(u) ==
    /\ \A i \in DOMAIN user_requests[u] :
           /\ InWindow(user_requests[u], user_requests[u][i], Minute)
                  <= config.MAX_MESSAGES_PER_MINUTE
           /\ InWindow(user_requests[u], user_requests[u][i], Hour)
                  <= config.MAX_MESSAGES_PER_HOUR
    /\ \A i \in DOMAIN api_requests[u] :
           InWindow(api_requests[u], api_requests[u][i], Minute) <= MAX_API_CALLS_PER_MINUTE

\* C34: in every reachable state and for every user, the message requests
\* recorded within a trailing minute are at most MAX_MESSAGES_PER_MINUTE,
\* those within a trailing hour at most MAX_MESSAGES_PER_HOUR, and the api
\* requests within a trailing minute at most MAX_API_CALLS_PER_MINUTE.
C34_WindowsWithinCaps == \A u \in DOMAIN user_requests : WithinCaps(u)

\* The same for the users the gate limits
WindowsOfLimitedUsers == \A u \in DOMAIN user_requests \ {OWNER_ID} : WithinCaps(u)

\* The api window of every user, the owner included
ApiWindows ==
    \A u \in DOMAIN api_requests : \A i \in DOMAIN api_requests[u] :
        InWindow(api_requests[u], api_requests[u][i], Minute) <= MAX_API_CALLS_PER_MINUTE


\* ---- which cap is reached first
\* The step is a check_access whose is_rate_limited(u) found a message cap
\* reached and applied the cooldown
IsMessageBreach(u) == Breach(u) /\ IsCheckAccess /\ subject'.id = u

\* The most message requests of u recorded within a minute
MinuteWindows(u, most) ==
    \A i \in DOMAIN user_requests'[u] :
        InWindow(user_requests'[u], user_requests'[u][i], Minute) <= most

\* C35 as stated: with the default caps no message cap is ever the cause of
\* a breach, and a user's messages of one minute are at most 6.
C35_ApiCapFiresFirst ==
    [][\A u \in Users :
          /\ ~IsMessageBreach(u)
          /\ MinuteWindows(u, MAX_API_CALLS_PER_MINUTE + 1)]_vars

\* C35, amended: with the default caps the per-minute message cap is never
\* the cause of a breach, and the messages of one minute are at most 6; a
\* breach found by check_access is one of the per-hour cap, reached by
\* traffic that stays below the api cap.
C35_MinuteCapNeverFirst ==
    [][\A u \in Users :
          /\ IsMessageBreach(u) =>
                 /\ CountNewer(user_requests[u], now - Minute) < DEFAULT_MESSAGES_PER_MINUTE
                 /\ CountNewer(user_requests[u], now - Hour) >= DEFAULT_MESSAGES_PER_HOUR
                 /\ CountNewer(api_requests[u], now - Minute) < MAX_API_CALLS_PER_MINUTE
          /\ MinuteWindows(u, MAX_API_CALLS_PER_MINUTE + 1)]_vars

\* The hundred-and-first photo of a user who sent one every SteadyPace
\* seconds: check_access has applied the cooldown of the per-hour cap.
C35_Witness ==
    /\ last_call = Call("check_access", 1, "private")
    /\ ~ret /\ replies = <<"rate_limit">>
    /\ cooldown_log[1].breaches = 1
    /\ Len(user_requests[1]) = DEFAULT_MESSAGES_PER_HOUR
    /\ InWindow(user_requests[1], now, Minute) < MAX_API_CALLS_PER_MINUTE


\* ---- handle_text after a spam verdict
\* check_spam has just returned the verdict spam
SpamVerdict == last_call.op = "check_spam" /\ ret.is_spam

\* message_count of the record of u, 0 when there is none
MessageCount(stats, u) == IF u \in DOMAIN stats THEN stats[u].message_count ELSE 0
SpamScore(stats, u) == IF u \in DOMAIN stats THEN stats[u].spam_score ELSE 0

IsOwnerAccess == last_call.op = "check_access" /\ last_call.user = OWNER_ID

\* C37: check_access for the owner returns True and sends nothing, whatever
\* the ban map, the cooldown table and the suspicious set hold for the owner's
\* id, and it changes none of the ban, rate-limiter, suspicion, approval and
\* stored state.
C37_OwnerAlwaysAdmitted ==
    [][IsOwnerAccess' =>
          /\ ret' = TRUE
          /\ replies' = <<>>
          /\ UNCHANGED <<rlVars, banned_users, approved_users, suspicious_users,
                         failed_verifications, dataVars, spamVars, modVars>>]_vars

\* The owner was admitted while banned, in cooldown and suspicious.
C37_Witness ==
    /\ IsOwnerAccess /\ ret
    /\ OWNER_ID \in DOMAIN banned_users /\ ~BanExpired(OWNER_ID)
    /\ InCooldown(OWNER_ID)
    /\ OWNER_ID \in suspicious_users
    /\ OWNER_ID \notin approved_users


\* ---- approved users at the gate
\* C38: a check_access for a user who is in the approval set, is not banned
\* and is not rate limited returns True; in particular it never answers that
\* the account is marked suspicious.
C38_ApprovedStaysAdmitted ==
    [][\A u \in Targets :
          /\ last_call'.op = "check_access" /\ last_call'.user = u
          /\ u \in approved_users
          /\ u \notin DOMAIN banned_users
          /\ ~AfterIsRateLimited(u, "message").ret
          => ret' = TRUE /\ replies' # <<"suspicious">>]_vars

\* The same for approved users who are not in the suspicious set
ApprovedUnsuspectedAdmitted ==
    [][\A u \in Targets :
          /\ last_call'.op = "check_access" /\ last_call'.user = u
          /\ u \in approved_users
          /\ u \notin suspicious_users
          /\ u \notin DOMAIN banned_users
          /\ ~AfterIsRateLimited(u, "message").ret
          => ret' = TRUE]_vars

\* Only /start puts an approved user into the suspicious set
OnlyStartSuspectsApproved ==
    [][\A u \in Targets :
          u \in approved_users /\ u \notin suspicious_users /\ u \in suspicious_users'
          => last_call'.op = "verify_user_account"]_vars


\* ---- repeated automatic mutes
IsWarnLevel(s) == SPAM_SCORE_THRESHOLD <= s /\ s < SPAM_SCORE_THRESHOLD + MUTE_MARGIN

\* The handler of this step sent the request of the call site and it succeeded
Delivered(site) ==
    \E i \in DOMAIN transport' : transport'[i].call = site /\ transport'[i].ok

\* C39: a warn-level violation of a (chat, user) whose warning counter already
\* reads 3 or more leaves the mute entry of the key at now + 60 minutes, and
\* every violation whose handler asks for a restriction of a key that has an
\* entry leaves the entry at now + the minutes asked for, be that earlier or
\* later than the expiry stored before.
C39_RepeatedMuteOverwrites ==
    [][\A u \in Members, s \in Scores :
         IsViolation(GroupChat, u, s) =>
           LET key == <<GroupChat.id, u>>
           IN  /\ (IsWarnLevel(s) /\ GetUserWarnings(key) >= WARNINGS_BEFORE_MUTE) =>
                      /\ key \in DOMAIN muted_users'
                      /\ muted_users'[key] = now + AUTO_MUTE_MINUTES * Minute
                      /\ mod_warning_counts'[key] = GetUserWarnings(key) + 1
               /\ (key \in DOMAIN muted_users /\ Requested("restrict_chat_member")) =>
                      \E m \in {MUTE_MINUTES, AUTO_MUTE_MINUTES} :
                          /\ Restricted(m) \/ ~Delivered("restrict_chat_member")
                          /\ key \in DOMAIN muted_users'
                          /\ muted_users'[key] = now + m * Minute]_vars

\* The same when the warning was sent and the restriction was accepted
RepeatedMuteWhenDelivered ==
    [][\A u \in Members, s \in Scores :
         IsViolation(GroupChat, u, s) =>
           LET key == <<GroupChat.id, u>>
           IN  /\ (/\ IsWarnLevel(s) /\ GetUserWarnings(key) >= WARNINGS_BEFORE_MUTE
                   /\ Delivered("warning_msg") /\ Delivered("restrict_chat_member")) =>
                      /\ key \in DOMAIN muted_users'
                      /\ muted_users'[key] = now + AUTO_MUTE_MINUTES * Minute
                      /\ mod_warning_counts'[key] = GetUserWarnings(key) + 1
               /\ (key \in DOMAIN muted_users /\ Delivered("restrict_chat_member")) =>
                      \E m \in {MUTE_MINUTES, AUTO_MUTE_MINUTES} :
                          /\ Restricted(m)
                          /\ key \in DOMAIN muted_users'
                          /\ muted_users'[key] = now + m * Minute
               /\ ~Delivered("restrict_chat_member") => muted_users' = muted_users]_vars

\* The last violation of a member with three warnings wrote a 30-minute entry
EarlierExpiryStored ==
    \E u \in Members :
        LET key == <<GroupChat.id, u>>
        IN  /\ key \in DOMAIN muted_users
            /\ GetUserWarnings(key) >= WARNINGS_BEFORE_MUTE
            /\ moderated.chat = GroupChat.id /\ Selected(moderated.score) = "mute"
            /\ last_call.op = "handle_spam_violation"
            /\ muted_users[key] = now + MUTE_MINUTES * Minute


\* ---- the length limit on the message path
\* len(update.message.text) of the text named in a call
LenOf(text) == (CHOOSE m \in LengthTexts : m.text = text).len

\* The tags of a returned reason
TagsOf(reason) == {reason[i] : i \in DOMAIN reason}

\* C40: every text handle_text passes to check_spam has at most
\* MAX_MESSAGE_LENGTH characters, so no score returned on that path carries
\* the length signal; a longer text admitted by the gate is answered by
\* validate_input with input_too_long, ends the handler there, and leaves the
\* violation log, the user records and the scorer's indexes unchanged.
C40_OversizedNeverScored ==
    [][/\ last_call'.op = "check_spam" =>
              /\ LenOf(last_call'.type) <= MAX_MESSAGE_LENGTH
              /\ "message_too_long" \notin TagsOf(ret'.reason)
       /\ \A m \in LengthTexts :
              (/\ last_call.op = "check_access" /\ ret
               /\ last_call'.op \in {"validate_input", "handle_text", "check_spam"}
               /\ last_call'.type = m.text
               /\ m.len > MAX_MESSAGE_LENGTH)
              => /\ last_call'.op = "validate_input"
                 /\ ret' = <<FALSE, "input_too_long">>
                 /\ UNCHANGED <<spam_violations, user_stats, message_hashes,
                                user_message_intervals, scored, modVars>>
                 /\ ~InVerdictText']_vars

\* A text one character over the limit was rejected, in the active group,
\* after the same sender's text of exactly the limit had been scored.
C40_Witness ==
    /\ last_call.op = "validate_input" /\ last_call.type = MsgOverLimit.text
    /\ ret = <<FALSE, "input_too_long">>
    /\ GroupState(GroupChat)
    /\ \E i \in DOMAIN scored : scored[i].text = MsgAtLimit.text
    /\ \A i \in DOMAIN scored : LenOf(scored[i].text) <= MAX_MESSAGE_LENGTH

====
